---- MODULE Spec2Model ----
(***************************************************************************)
(* order-up: the order lifecycle handlers of the api package (create,      *)
(* charge, cancel) running as concurrent HTTP requests over the in-memory  *)
(* order store of the storage package, with the external charge service    *)
(* as a nondeterministic environment.                                      *)
(*                                                                         *)
(* Spec      : concurrent API requests; every store call is one atomic     *)
(*             step (it runs under MemoryInstance.m).                      *)
(* StoreSpec : client threads calling the MemoryInstance methods directly, *)
(*             with the RWMutex acquisition as a step of its own.          *)
(***************************************************************************)
EXTENDS Integers, Sequences, FiniteSets, TLC

VARIABLES
    orders,     \* MemoryInstance.orders : map[string]Order
    req,        \* one record per HTTP request slot (gin.Context + handler locals)
    mu,         \* MemoryInstance.m : sync.RWMutex
    thr,        \* one record per goroutine calling the store directly
    ncalls,     \* number of direct store calls issued so far
    insertLog,  \* history: the ids returned by successful InsertOrder calls
    heap        \* the backing arrays of the []LineItem slices that callers of
                \* the store allocate (used where slices are held by reference)

vars == <<orders, req, mu, thr, ncalls, insertLog, heap>>

----------------------------------------------------------------------------
(* Bounds of the model *)

\* number of HTTP requests (each slot serves one request, all may overlap)
NumReqs == 3
\* number of goroutines calling the store directly in StoreSpec
NumThreads == 2
\* total number of store calls issued in StoreSpec
MaxCalls == 3

Reqs == 1..NumReqs
Threads == 1..NumThreads

----------------------------------------------------------------------------
(* Data model: storage.Order, storage.LineItem, storage.OrderStatus *)

OrderStatusPending == 0
OrderStatusCharged == 1
OrderStatusFulfilled == 2
OrderStatusCancelled == 3

Statuses == {OrderStatusPending, OrderStatusCharged, OrderStatusFulfilled, OrderStatusCancelled}

Nil == "nil"
ErrOrderNotFound == "order not found"
ErrOrderExists == "order already exists"
ErrRand == "rand.Read failed"

\* what hex.EncodeToString(b) can be after rand.Read(b): any id at all, so a
\* generated id may equal one that is already a key (two stand-ins for the
\* 2^128 values), or rand.Read may fail
GenIds == {"a1f0", "b2e9"}
RandErr == "rand-error"
RandOutcomes == GenIds \cup {RandErr}

\* line-item lists a client can post
Widgets == << [Description |-> "Widget", PriceCents |-> 1000, Quantity |-> 2] >>
FreeOrder == << [Description |-> "Widget", PriceCents |-> 500, Quantity |-> 1],
                [Description |-> "Coupon", PriceCents |-> -500, Quantity |-> 1] >>
Overdiscounted == << [Description |-> "Coupon", PriceCents |-> -500, Quantity |-> 1] >>
ItemChoices == {Widgets, FreeOrder, Overdiscounted, << >>}

\* line-item lists whose quantity is not positive: "quantity" is decoded into
\* an int64 and any integer of the body is taken
ZeroQuantity == << [Description |-> "Widget", PriceCents |-> 1000, Quantity |-> 0] >>
NegativeQuantity == << [Description |-> "Coupon", PriceCents |-> -500, Quantity |-> -2] >>
QuantityChoices == {Widgets, ZeroQuantity, NegativeQuantity, << >>}

\* e-mail addresses as character sequences
GoodEmail == << "a", "@", "b" >>
BadEmail == << "a", "b" >>
Emails == {GoodEmail, BadEmail}

Tokens == {"tok_visa", "tok_amex"}

\* Order{} : the zero value GetOrder returns beside an error
ZeroOrder == [ID |-> "", CustomerEmail |-> << >>, LineItems |-> << >>,
              Status |-> OrderStatusPending]

RECURSIVE SumItems(_)
SumItems(items) ==
    IF items = << >> THEN 0
    ELSE Head(items).PriceCents * Head(items).Quantity + SumItems(Tail(items))

\* Order.TotalCents : the derived total of an order
TotalCents(order) == SumItems(order.LineItems)

----------------------------------------------------------------------------
(* storage.MemoryInstance: the bodies of the methods, run under i.m *)

\* a GetOrder that finds nothing
GetOrderNeverFinds(store, id) == [order |-> ZeroOrder, err |-> ErrOrderNotFound]

\* a GetOrder that answers a missing id with an empty order and no error
GetOrderZeroForMissing(store, id) ==
    IF id \in DOMAIN store
    THEN [order |-> store[id], err |-> Nil]
    ELSE [order |-> [ZeroOrder EXCEPT !.ID = id], err |-> Nil]

\* GetOrder
GetOrder(store, id) ==
    IF id \in DOMAIN store
    THEN [order |-> store[id], err |-> Nil]
    ELSE [order |-> ZeroOrder, err |-> ErrOrderNotFound]

\* the filter value that selects every order: OrderStatus(-1)
AllOrders == -1

\* a Go slice of orders: the nil slice (`var orders []Order`) is not the
\* empty slice `[]Order{}`, although both have length 0
NilSlice == [isNil |-> TRUE, elems |-> << >>]
EmptySlice == [isNil |-> FALSE, elems |-> << >>]
append(slice, order) == [isNil |-> FALSE, elems |-> Append(slice.elems, order)]

\* the orders in which `range i.orders` can visit the keys of the map
Iterations(store) ==
    {it \in [1..Cardinality(DOMAIN store) -> DOMAIN store] :
        \A i, j \in DOMAIN it : i # j => it[i] # it[j]}

\* a GetOrders loop that keeps every order it visits
RECURSIVE GetOrdersLoopUnfiltered(_, _, _, _)
GetOrdersLoopUnfiltered(store, iter, status, acc) ==
    IF iter = << >> THEN acc
    ELSE GetOrdersLoopUnfiltered(store, Tail(iter), status, append(acc, store[Head(iter)]))

\* GetOrders: the loop over the map, iter being the keys still to visit
RECURSIVE GetOrdersLoop(_, _, _, _)
GetOrdersLoop(store, iter, status, acc) ==
    IF iter = << >> THEN acc
    ELSE LET order == store[Head(iter)]
         IN  GetOrdersLoop(store, Tail(iter), status,
                           IF status = AllOrders \/ order.Status = status
                           THEN append(acc, order) ELSE acc)

\* GetOrders; iter is the order in which the map is visited
GetOrders(store, status, iter) ==
    [orders |-> GetOrdersLoop(store, iter, status, NilSlice), err |-> Nil]

\* a SetOrderStatus that creates the record it does not find
SetOrderStatusUpsert(store, id, status) ==
    IF id \notin DOMAIN store
    THEN [orders |-> (id :> [ZeroOrder EXCEPT !.ID = id, !.Status = status]) @@ store,
          err |-> Nil]
    ELSE [orders |-> [store EXCEPT ![id].Status = status], err |-> Nil]

\* a SetOrderStatus that refuses what is not an edge of the state machine
SetOrderStatusLegalOnly(store, id, status) ==
    IF id \notin DOMAIN store
    THEN [orders |-> store, err |-> ErrOrderNotFound]
    ELSE IF <<store[id].Status, status>> \notin
                {<<OrderStatusPending, OrderStatusCharged>>,
                 <<OrderStatusPending, OrderStatusCancelled>>,
                 <<OrderStatusCharged, OrderStatusCancelled>>,
                 <<OrderStatusCharged, OrderStatusFulfilled>>}
    THEN [orders |-> store, err |-> "illegal transition"]
    ELSE [orders |-> [store EXCEPT ![id].Status = status], err |-> Nil]

\* a SetOrderStatus that stores a new record holding the id and the status
SetOrderStatusFreshRecord(store, id, status) ==
    IF id \notin DOMAIN store
    THEN [orders |-> store, err |-> ErrOrderNotFound]
    ELSE [orders |-> [store EXCEPT ![id] = [ZeroOrder EXCEPT !.ID = id,
                                                             !.Status = status]],
          err |-> Nil]

\* a SetOrderStatus that writes the status into every record of the map
SetOrderStatusEveryRecord(store, id, status) ==
    IF id \notin DOMAIN store
    THEN [orders |-> store, err |-> ErrOrderNotFound]
    ELSE [orders |-> [k \in DOMAIN store |-> [store[k] EXCEPT !.Status = status]],
          err |-> Nil]

\* SetOrderStatus
SetOrderStatus(store, id, status) ==
    IF id \notin DOMAIN store
    THEN [orders |-> store, err |-> ErrOrderNotFound]
    ELSE [orders |-> [store EXCEPT ![id].Status = status], err |-> Nil]

\* an InsertOrder without the existence check: the map entry is overwritten
InsertOrderOverwrite(store, order, rnd) ==
    IF order.ID = "" /\ rnd = RandErr
    THEN [orders |-> store, id |-> "", err |-> ErrRand]
    ELSE LET o == IF order.ID = "" THEN [order EXCEPT !.ID = rnd] ELSE order
         IN  [orders |-> (o.ID :> o) @@ store, id |-> o.ID, err |-> Nil]

\* an InsertOrder that stores the record as it was handed in, without the
\* generated id
InsertOrderKeepsEmptyID(store, order, rnd) ==
    IF order.ID = "" /\ rnd = RandErr
    THEN [orders |-> store, id |-> "", err |-> ErrRand]
    ELSE LET key == IF order.ID = "" THEN rnd ELSE order.ID
         IN  IF key \in DOMAIN store
             THEN [orders |-> store, id |-> "", err |-> ErrOrderExists]
             ELSE [orders |-> (key :> order) @@ store, id |-> key, err |-> Nil]

\* InsertOrder; rnd is the outcome of rand.Read + hex.EncodeToString
InsertOrder(store, order, rnd) ==
    IF order.ID = "" /\ rnd = RandErr
    THEN [orders |-> store, id |-> "", err |-> ErrRand]
    ELSE LET o == IF order.ID = "" THEN [order EXCEPT !.ID = rnd] ELSE order
         IN  IF o.ID \in DOMAIN store
             THEN [orders |-> store, id |-> "", err |-> ErrOrderExists]
             ELSE [orders |-> (o.ID :> o) @@ store, id |-> o.ID, err |-> Nil]

----------------------------------------------------------------------------
(* storage.Instance: the SQL store, its table seen as a map from id to row *)

\* what result.RowsAffected() counts after an UPDATE: the rows the WHERE
\* clause matched, or (drivers reporting changed rows) those whose value
\* was altered
RowsAffectedModes == {"matched", "changed"}

\* Instance.SetOrderStatus: UPDATE orders SET status = ? WHERE id = ?
SqlSetOrderStatus(table, id, status, mode) ==
    LET matched == IF id \in DOMAIN table THEN {id} ELSE {}
        changed == {k \in matched : table[k].Status # status}
        after == [k \in DOMAIN table |->
                    IF k \in matched THEN [table[k] EXCEPT !.Status = status] ELSE table[k]]
        rowsAffected == Cardinality(IF mode = "matched" THEN matched ELSE changed)
    IN  [orders |-> after, err |-> IF rowsAffected = 0 THEN ErrOrderNotFound ELSE Nil]

\* what a database call can come back with
DbErr == "database error"
DbOutcomes == {Nil, DbErr}

\* the store behind the handlers' storage interface: the MemoryInstance, or
\* the SQL Instance with what its database call comes back with and the way
\* its driver counts the affected rows
MemoryStore == [kind |-> "memory", outcome |-> Nil, mode |-> "matched"]
SqlStores == [kind : {"sql"}, outcome : DbOutcomes, mode : RowsAffectedModes]

\* stor.SetOrderStatus through the interface
StorSetOrderStatus(stor, store, id, status) ==
    IF stor.kind = "memory" THEN SetOrderStatus(store, id, status)
    ELSE IF stor.outcome # Nil THEN [orders |-> store, err |-> DbErr]
    ELSE SqlSetOrderStatus(store, id, status, stor.mode)

\* Instance.InsertOrder: uuid is the value of uuid.New().String(), getOutcome
\* and execOutcome what the SELECT of GetOrder and the INSERT come back
\* with; the table is keyed by id, so the INSERT of an id that is in a row
\* (reached only when the SELECT failed) is refused by the database
SqlInsertOrder(table, order, uuid, getOutcome, execOutcome) ==
    LET o == IF order.ID = "" THEN [order EXCEPT !.ID = uuid] ELSE order
    IN  IF getOutcome = Nil /\ o.ID \in DOMAIN table
        THEN [orders |-> table, id |-> "", err |-> ErrOrderExists]
        ELSE IF execOutcome # Nil \/ o.ID \in DOMAIN table
        THEN [orders |-> table, id |-> o.ID, err |-> DbErr]
        ELSE [orders |-> (o.ID :> o) @@ table, id |-> o.ID, err |-> Nil]

----------------------------------------------------------------------------
(* api: responses, the charge service, the request slots *)

StatusOK == 200
StatusCreated == 201
StatusBadRequest == 400
StatusNotFound == 404
StatusConflict == 409
StatusInternalServerError == 500

ErrCodeOrderNotFound == "order_not_found"
ErrCodeOrderExists == "order_already_exists"
ErrCodeInvalidEmail == "invalid_email"
ErrCodeInvalidLineItems == "invalid_line_items"
ErrCodeInvalidTotal == "invalid_total"
ErrCodeInvalidStatus == "invalid_status"
ErrCodeOrderNotEligible == "order_not_eligible"
ErrCodeInvalidJSON == "invalid_json"
ErrCodeInternalError == "internal_error"
ErrCodeChargeServiceError == "charge_service_error"

\* handleError : c.JSON(statusCode, errorResponse{Code, Message})
\* a handleError that answers every error with 400
handleErrorBadRequest(statusCode, code) ==
    [status |-> StatusBadRequest, code |-> code, body |-> << >>]

handleError(statusCode, code) == [status |-> statusCode, code |-> code, body |-> << >>]

\* c.JSON(statusCode, body) of a success path
JSON(statusCode, body) == [status |-> statusCode, code |-> "", body |-> body]

NoResp == [status |-> 0, code |-> "", body |-> << >>]

\* what chargeService.Post can come back with: 201 Created, another status,
\* or no response at all (transport error, timeout)
Accepted == [err |-> Nil, StatusCode |-> StatusCreated]
Rejected == [err |-> Nil, StatusCode |-> StatusInternalServerError]
Unreachable == [err |-> "transport error", StatusCode |-> 0]
ChargeReplies == {Accepted, Rejected, Unreachable}

\* an innerChargeOrder that does not look at the response status
innerChargeOrderAnyStatus(reply) ==
    IF reply.err # Nil THEN "error making charge request" ELSE Nil

\* innerChargeOrder : the error it returns for the service's reply
innerChargeOrder(reply) ==
    IF reply.err # Nil THEN "error making charge request"
    ELSE IF reply.StatusCode # StatusCreated THEN "error charging body"
    ELSE Nil

\* strings.Contains(s, "@")
ContainsAt(s) == \E i \in DOMAIN s : s[i] = "@"

\* postOrderArgs{} : the body of a POST /orders before BindJSON fills it
ZeroArgs == [CustomerEmail |-> << >>, LineItems |-> << >>]

IdleReq == [pc |-> "idle", kind |-> "none", id |-> "", token |-> "", bodyOK |-> TRUE,
            query |-> "", args |-> ZeroArgs, ctxDone |-> FALSE, order |-> ZeroOrder, refundedCents |-> 0, log |-> << >>, resp |-> NoResp]

\* the request is over: the response is written
Respond(q, resp) == [q EXCEPT !.pc = "done", !.resp = resp]

ChargeCall(token, amount, reply) ==
    [ev |-> "charge", CardToken |-> token, AmountCents |-> amount, reply |-> reply]
SetCall(id, status, err) ==
    [ev |-> "set", id |-> id, status |-> status, err |-> err]
InsertCall(order, ins) ==
    [ev |-> "insert", order |-> order, id |-> ins.id, err |-> ins.err]
ListCall(status, got) ==
    [ev |-> "list", status |-> status, orders |-> got.orders, err |-> got.err]

IdleThr == [pc |-> "idle", op |-> "none", order |-> ZeroOrder, id |-> "",
            status |-> OrderStatusPending, rnd |-> "", res |-> << >>]

\* request slots are taken in arrival order
CanStart(r) == req[r].pc = "idle" /\ (IF r = 1 THEN TRUE ELSE req[r - 1].pc # "idle")

Init ==
    /\ orders = << >>
    /\ req = [r \in Reqs |-> IdleReq]
    /\ mu = [writer |-> FALSE, readers |-> 0]
    /\ thr = [t \in Threads |-> IdleThr]
    /\ ncalls = 0
    /\ insertLog = << >>
    /\ heap = << >>

StoreSide == <<mu, thr, ncalls, insertLog, heap>>

----------------------------------------------------------------------------
(* api.postOrders *)

\* the checks of postOrders before the insert, in the order of the code:
\* the error code of the first check that fails, or Nil
\* a postOrders that does not check the total
postOrdersCheckNoTotal(bodyOK, order) ==
    IF ~bodyOK THEN ErrCodeInvalidJSON
    ELSE IF ~ContainsAt(order.CustomerEmail) THEN ErrCodeInvalidEmail
    ELSE IF Len(order.LineItems) < 1 THEN ErrCodeInvalidLineItems
    ELSE Nil

\* a postOrders that refuses a total of zero as well
postOrdersCheckPositiveTotal(bodyOK, order) ==
    IF ~bodyOK THEN ErrCodeInvalidJSON
    ELSE IF ~ContainsAt(order.CustomerEmail) THEN ErrCodeInvalidEmail
    ELSE IF Len(order.LineItems) < 1 THEN ErrCodeInvalidLineItems
    ELSE IF TotalCents(order) <= 0 THEN ErrCodeInvalidTotal
    ELSE Nil

\* a postOrders that looks at the total before the e-mail and the line items
postOrdersCheckTotalFirst(bodyOK, order) ==
    IF ~bodyOK THEN ErrCodeInvalidJSON
    ELSE IF TotalCents(order) < 0 THEN ErrCodeInvalidTotal
    ELSE IF ~ContainsAt(order.CustomerEmail) THEN ErrCodeInvalidEmail
    ELSE IF Len(order.LineItems) < 1 THEN ErrCodeInvalidLineItems
    ELSE Nil

\* a postOrders that takes an empty list of line items
postOrdersCheckNoLineItems(bodyOK, order) ==
    IF ~bodyOK THEN ErrCodeInvalidJSON
    ELSE IF ~ContainsAt(order.CustomerEmail) THEN ErrCodeInvalidEmail
    ELSE IF TotalCents(order) < 0 THEN ErrCodeInvalidTotal
    ELSE Nil

postOrdersCheck(bodyOK, order) ==
    IF ~bodyOK THEN ErrCodeInvalidJSON
    ELSE IF ~ContainsAt(order.CustomerEmail) THEN ErrCodeInvalidEmail
    ELSE IF Len(order.LineItems) < 1 THEN ErrCodeInvalidLineItems
    ELSE IF TotalCents(order) < 0 THEN ErrCodeInvalidTotal
    ELSE Nil

postOrdersFrom(r, choices) ==
    /\ CanStart(r)
    /\ \E bodyOK \in BOOLEAN, email \in Emails, items \in choices, rnd \in RandOutcomes :
         LET args == IF bodyOK THEN [CustomerEmail |-> email, LineItems |-> items]
                     ELSE ZeroArgs
             q == [IdleReq EXCEPT !.kind = "create", !.bodyOK = bodyOK, !.args = args]
             order == [ID |-> "", CustomerEmail |-> args.CustomerEmail,
                       LineItems |-> args.LineItems, Status |-> OrderStatusPending]
             bad == postOrdersCheck(bodyOK, order)
             ins == InsertOrder(orders, order, rnd)
             ql == [q EXCEPT !.log = Append(@, InsertCall(order, ins))]
         IN  IF bad # Nil
             THEN /\ req' = [req EXCEPT ![r] = Respond(q, handleError(StatusBadRequest, bad))]
                  /\ UNCHANGED <<orders, insertLog>>
             ELSE /\ orders' = ins.orders
                  /\ insertLog' = IF ins.err = Nil THEN Append(insertLog, ins.id)
                                  ELSE insertLog
                  /\ req' = [req EXCEPT ![r] =
                        IF ins.err = ErrOrderExists
                        THEN Respond(ql, handleError(StatusConflict, ErrCodeOrderExists))
                        ELSE IF ins.err # Nil
                        THEN Respond(ql, handleError(StatusInternalServerError,
                                                     ErrCodeInternalError))
                        ELSE Respond([ql EXCEPT !.id = ins.id],
                                     JSON(StatusCreated,
                                          [Order |-> [order EXCEPT !.ID = ins.id]]))]
    /\ UNCHANGED <<mu, thr, ncalls, heap>>

\* POST /orders with the line items of the other specifications
postOrders(r) == postOrdersFrom(r, ItemChoices)

\* POST /orders with line items of any quantity
postOrdersAnyQuantity(r) == postOrdersFrom(r, QuantityChoices)

----------------------------------------------------------------------------
(* api.orderFetchMiddleware: the first step of a charge or cancel request *)

\* the ids a client can put in the path: the router only matches a
\* non-empty :id, so the middleware's id == "" branch is never taken
PathIds == GenIds

orderFetchMiddleware(r, kind, id, token, bodyOK) ==
    /\ CanStart(r)
    /\ LET q == [IdleReq EXCEPT !.kind = kind, !.id = id, !.token = token, !.bodyOK = bodyOK]
           got == GetOrder(orders, id)
       IN  req' = [req EXCEPT ![r] =
                IF got.err = ErrOrderNotFound
                THEN Respond(q, handleError(StatusNotFound, ErrCodeOrderNotFound))
                ELSE IF got.err # Nil
                THEN Respond(q, handleError(StatusInternalServerError, ErrCodeInternalError))
                ELSE [q EXCEPT !.pc = "handler", !.order = got.order]]
    /\ UNCHANGED <<orders, StoreSide>>

----------------------------------------------------------------------------
(* api.chargeOrder *)

\* POST /orders/:id/charge arrives: the middleware runs
chargeOrderFetch(r) ==
    \E id \in PathIds, token \in Tokens, bodyOK \in BOOLEAN :
        orderFetchMiddleware(r, "charge", id, token, bodyOK)

\* the eligibility test of chargeOrder
ChargeEligible(order) == order.Status = OrderStatusPending

\* a chargeOrder that sends the amount with the sign of a refund
ChargeAmountNegated(order) == -TotalCents(order)

\* the amount chargeOrder sends to the charge service
ChargeAmount(order) == TotalCents(order)

\* a chargeOrder that tries the charge call once more after a failure
chargeOrderPostRetrying(r, ctxDone) ==
    /\ req[r].pc = "handler" /\ req[r].kind = "charge"
    /\ \E reply \in ChargeReplies :
         LET q == req[r]
             call == ChargeCall(q.token, TotalCents(q.order), reply)
             qc == [q EXCEPT !.log = Append(@, call), !.ctxDone = ctxDone]
         IN  req' = [req EXCEPT ![r] =
                  IF ~q.bodyOK
                  THEN Respond(q, handleError(StatusBadRequest, ErrCodeInvalidJSON))
                  ELSE IF q.order.Status # OrderStatusPending
                  THEN Respond(q, handleError(StatusConflict, ErrCodeOrderNotEligible))
                  ELSE IF reply # Accepted /\ q.log = << >>
                  THEN qc
                  ELSE IF reply # Accepted
                  THEN Respond(qc, handleError(StatusInternalServerError,
                                               ErrCodeChargeServiceError))
                  ELSE [qc EXCEPT !.pc = "write"]]
    /\ UNCHANGED <<orders, mu, thr, ncalls, insertLog, heap>>

\* BindJSON, the eligibility test on the order the middleware fetched, and
\* the call of the charge service. ctxDone: the request's context is
\* cancelled (or its deadline passes) while chargeService.Post is in flight;
\* Post is not given the context, so its outcomes are the same either way
chargeOrderPost(r, ctxDone) ==
    /\ req[r].pc = "handler" /\ req[r].kind = "charge"
    /\ \E reply \in ChargeReplies :
         LET q == req[r]
             call == ChargeCall(q.token, ChargeAmount(q.order), reply)
             qc == [q EXCEPT !.log = Append(@, call), !.ctxDone = ctxDone]
         IN  req' = [req EXCEPT ![r] =
                  IF ~q.bodyOK
                  THEN Respond(q, handleError(StatusBadRequest, ErrCodeInvalidJSON))
                  ELSE IF ~ChargeEligible(q.order)
                  THEN Respond(q, handleError(StatusConflict, ErrCodeOrderNotEligible))
                  ELSE IF innerChargeOrder(reply) # Nil
                  THEN Respond(qc, handleError(StatusInternalServerError,
                                               ErrCodeChargeServiceError))
                  ELSE [qc EXCEPT !.pc = "write"]]
    /\ UNCHANGED <<orders, StoreSide>>

\* the step of a request whose client stays until the answer
chargeOrderCall(r) == chargeOrderPost(r, FALSE)

\* the step of a request whose client may give up during the call
chargeOrderCallCtx(r) == \E ctxDone \in BOOLEAN : chargeOrderPost(r, ctxDone)

\* a chargeOrder that answers 200 whatever SetOrderStatus returns
chargeOrderSetIgnoringError(r, stor) ==
    /\ req[r].pc = "write" /\ req[r].kind = "charge"
    /\ LET q == req[r]
           set == StorSetOrderStatus(stor, orders, q.order.ID, OrderStatusCharged)
           ql == [q EXCEPT !.log = Append(@, SetCall(q.order.ID, OrderStatusCharged, set.err))]
       IN  /\ orders' = set.orders
           /\ req' = [req EXCEPT ![r] =
                  Respond(ql, JSON(StatusOK, [ChargedCents |-> TotalCents(q.order)]))]
    /\ UNCHANGED <<mu, thr, ncalls, insertLog, heap>>

\* stor.SetOrderStatus(order.ID, Charged) and the response
chargeOrderSet(r, stor) ==
    /\ req[r].pc = "write" /\ req[r].kind = "charge"
    /\ LET q == req[r]
           set == StorSetOrderStatus(stor, orders, q.order.ID, OrderStatusCharged)
           ql == [q EXCEPT !.log = Append(@, SetCall(q.order.ID, OrderStatusCharged, set.err))]
       IN  /\ orders' = set.orders
           /\ req' = [req EXCEPT ![r] =
                  IF set.err # Nil
                  THEN Respond(ql, handleError(StatusInternalServerError, ErrCodeInternalError))
                  ELSE Respond(ql, JSON(StatusOK, [ChargedCents |-> TotalCents(q.order)]))]
    /\ UNCHANGED StoreSide

\* the write step over the in-memory store
chargeOrderWrite(r) == chargeOrderSet(r, MemoryStore)

\* the write step over the SQL store
chargeOrderWriteSql(r) == \E stor \in SqlStores : chargeOrderSet(r, stor)

----------------------------------------------------------------------------
(* api.cancelOrder *)

\* POST /orders/:id/cancel arrives: the middleware runs (no body is read)
cancelOrderFetch(r) ==
    \E id \in PathIds : orderFetchMiddleware(r, "cancel", id, "", TRUE)

\* a cancelOrder that lets every order be cancelled
CancelEligibleAlways(order) == TRUE

\* the eligibility test of cancelOrder
CancelEligible(order) ==
    ~(order.Status # OrderStatusPending /\ order.Status # OrderStatusCharged)

\* a cancelOrder that refunds whatever is not fulfilled
NeedsRefundUnlessFulfilled(order) == order.Status # OrderStatusFulfilled

\* cancelOrder refunds when the order it holds is charged
NeedsRefund(order) == order.Status = OrderStatusCharged

\* a refund that sends the total with its sign unchanged
RefundAmountPositive(order) == TotalCents(order)

\* the amount cancelOrder sends to the charge service
RefundAmount(order) == -TotalCents(order)

\* the eligibility test on the order the middleware fetched and, for a
\* charged order, the refund call
\* ctxDone: the request's context is cancelled while the refund call is in
\* flight (see chargeOrderPost)
cancelOrderPost(r, ctxDone) ==
    /\ req[r].pc = "handler" /\ req[r].kind = "cancel"
    /\ \E reply \in ChargeReplies :
         LET q == req[r]
             call == ChargeCall("", RefundAmount(q.order), reply)
             qc == [q EXCEPT !.log = Append(@, call), !.ctxDone = ctxDone]
         IN  req' = [req EXCEPT ![r] =
                  IF ~CancelEligible(q.order)
                  THEN Respond(q, handleError(StatusConflict, ErrCodeOrderNotEligible))
                  ELSE IF ~NeedsRefund(q.order)
                  THEN [q EXCEPT !.pc = "write"]
                  ELSE IF innerChargeOrder(reply) # Nil
                  THEN Respond(qc, handleError(StatusInternalServerError,
                                               ErrCodeChargeServiceError))
                  ELSE [qc EXCEPT !.pc = "write", !.refundedCents = TotalCents(q.order)]]
    /\ UNCHANGED <<orders, StoreSide>>

cancelOrderCall(r) == cancelOrderPost(r, FALSE)

cancelOrderCallCtx(r) == \E ctxDone \in BOOLEAN : cancelOrderPost(r, ctxDone)

\* cancelOrderRes: RefundedCents is set only if refundedCents > 0
cancelOrderRes(q) ==
    [Message |-> "order cancelled successfully", OrderID |-> q.order.ID,
     RefundedCents |-> IF q.refundedCents > 0 THEN q.refundedCents ELSE 0]

\* `json:"refundedCents,omitempty"`: the field is on the wire iff it is not 0
WireHasRefundedCents(body) == body.RefundedCents # 0

\* stor.SetOrderStatus(order.ID, Cancelled) and the response
cancelOrderSet(r, stor) ==
    /\ req[r].pc = "write" /\ req[r].kind = "cancel"
    /\ LET q == req[r]
           set == StorSetOrderStatus(stor, orders, q.order.ID, OrderStatusCancelled)
           ql == [q EXCEPT !.log = Append(@, SetCall(q.order.ID, OrderStatusCancelled, set.err))]
       IN  /\ orders' = set.orders
           /\ req' = [req EXCEPT ![r] =
                  IF set.err # Nil
                  THEN Respond(ql, handleError(StatusInternalServerError, ErrCodeInternalError))
                  ELSE Respond(ql, JSON(StatusOK, cancelOrderRes(q)))]
    /\ UNCHANGED StoreSide

cancelOrderWrite(r) == cancelOrderSet(r, MemoryStore)

cancelOrderWriteSql(r) == \E stor \in SqlStores : cancelOrderSet(r, stor)

----------------------------------------------------------------------------
(* The external fulfilment system: charged -> fulfilled *)

Fulfil(id) ==
    /\ id \in DOMAIN orders
    /\ orders[id].Status = OrderStatusCharged
    /\ orders' = SetOrderStatus(orders, id, OrderStatusFulfilled).orders
    /\ UNCHANGED <<req, StoreSide>>

----------------------------------------------------------------------------

Next ==
    \/ \E r \in Reqs : postOrders(r)
    \/ \E r \in Reqs : chargeOrderFetch(r)
    \/ \E r \in Reqs : chargeOrderCall(r)
    \/ \E r \in Reqs : chargeOrderWrite(r)
    \/ \E r \in Reqs : cancelOrderFetch(r)
    \/ \E r \in Reqs : cancelOrderCall(r)
    \/ \E r \in Reqs : cancelOrderWrite(r)
    \/ \E id \in GenIds : Fulfil(id)

Spec == Init /\ [][Next]_vars

\* the server after one order was created and charged by requests that are
\* over: the store holds it as Charged and every request slot is free
ChargedOrder == [ID |-> "a1f0", CustomerEmail |-> GoodEmail, LineItems |-> Widgets,
                 Status |-> OrderStatusCharged]

InitCharged ==
    /\ orders = ("a1f0" :> ChargedOrder)
    /\ req = [r \in Reqs |-> IdleReq]
    /\ mu = [writer |-> FALSE, readers |-> 0]
    /\ thr = [t \in Threads |-> IdleThr]
    /\ ncalls = 0
    /\ insertLog = << "a1f0" >>
    /\ heap = << >>

SpecCharged == InitCharged /\ [][Next]_vars

----------------------------------------------------------------------------
(* storage.MemoryInstance called directly by concurrent goroutines.         *)
(* Every method takes i.m first (Lock or RLock) and releases it by defer    *)
(* when its body returns.                                                    *)

\* sync.RWMutex
\* a Lock that does not wait for the readers to leave
CanLockDespiteReaders == ~mu.writer
\* an RLock that does not wait for the writer to leave
CanRLockDespiteWriter == TRUE

CanLock == ~mu.writer /\ mu.readers = 0
CanRLock == ~mu.writer
Lock == [mu EXCEPT !.writer = TRUE]
Unlock == [mu EXCEPT !.writer = FALSE]
RLock == [mu EXCEPT !.readers = @ + 1]
RUnlock == [mu EXCEPT !.readers = @ - 1]

\* a goroutine that is not inside a store method may call one; goroutines
\* make their first call in the order of their numbers
CanCall(t) ==
    /\ thr[t].pc \in {"idle", "done"}
    /\ ncalls < MaxCalls
    /\ IF t = 1 THEN TRUE ELSE thr[t - 1].pc # "idle"

\* the orders a caller can hand to InsertOrder and the ids it can ask for
StoreIds == GenIds
InsertArgs == [ID : StoreIds \cup {""}, CustomerEmail : Emails, LineItems : {Widgets},
               Status : {OrderStatusPending}]

\* InsertOrder: i.m.Lock()
InsertOrderLock(t) ==
    /\ CanCall(t) /\ CanLock
    /\ \E order \in InsertArgs :
         thr' = [thr EXCEPT ![t] = [IdleThr EXCEPT !.pc = "cs", !.op = "InsertOrder",
                                                  !.order = order]]
    /\ mu' = Lock
    /\ ncalls' = ncalls + 1
    /\ UNCHANGED <<orders, req, heap, insertLog>>

\* InsertOrder: the body and the deferred i.m.Unlock()
InsertOrderBody(t) ==
    /\ thr[t].pc = "cs" /\ thr[t].op = "InsertOrder"
    /\ \E rnd \in RandOutcomes :
         LET ins == InsertOrder(orders, thr[t].order, rnd)
         IN  /\ orders' = ins.orders
             /\ thr' = [thr EXCEPT ![t].pc = "done", ![t].rnd = rnd,
                                   ![t].res = [id |-> ins.id, err |-> ins.err]]
             /\ insertLog' = IF ins.err = Nil THEN Append(insertLog, ins.id) ELSE insertLog
    /\ mu' = Unlock
    /\ UNCHANGED <<req, heap, ncalls>>

\* SetOrderStatus: i.m.Lock()
SetOrderStatusLock(t) ==
    /\ CanCall(t) /\ CanLock
    /\ \E id \in StoreIds, status \in Statuses :
         thr' = [thr EXCEPT ![t] = [IdleThr EXCEPT !.pc = "cs", !.op = "SetOrderStatus",
                                                  !.id = id, !.status = status]]
    /\ mu' = Lock
    /\ ncalls' = ncalls + 1
    /\ UNCHANGED <<orders, req, heap, insertLog>>

\* SetOrderStatus: the body and the deferred i.m.Unlock()
SetOrderStatusBody(t) ==
    /\ thr[t].pc = "cs" /\ thr[t].op = "SetOrderStatus"
    /\ LET set == SetOrderStatus(orders, thr[t].id, thr[t].status)
       IN  /\ orders' = set.orders
           /\ thr' = [thr EXCEPT ![t].pc = "done", ![t].res = [err |-> set.err]]
    /\ mu' = Unlock
    /\ UNCHANGED <<req, heap, ncalls, insertLog>>

\* GetOrder: i.m.RLock()
GetOrderRLock(t) ==
    /\ CanCall(t) /\ CanRLock
    /\ \E id \in StoreIds :
         thr' = [thr EXCEPT ![t] = [IdleThr EXCEPT !.pc = "cs", !.op = "GetOrder", !.id = id]]
    /\ mu' = RLock
    /\ ncalls' = ncalls + 1
    /\ UNCHANGED <<orders, req, heap, insertLog>>

\* GetOrder: the body and the deferred i.m.RUnlock()
GetOrderBody(t) ==
    /\ thr[t].pc = "cs" /\ thr[t].op = "GetOrder"
    /\ thr' = [thr EXCEPT ![t].pc = "done", ![t].res = GetOrder(orders, thr[t].id)]
    /\ mu' = RUnlock
    /\ UNCHANGED <<orders, req, heap, ncalls, insertLog>>

\* the filters a caller can hand to GetOrders
Filters == Statuses \cup {AllOrders}

\* GetOrders: i.m.RLock()
GetOrdersRLock(t) ==
    /\ CanCall(t) /\ CanRLock
    /\ \E status \in Filters :
         thr' = [thr EXCEPT ![t] = [IdleThr EXCEPT !.pc = "cs", !.op = "GetOrders",
                                                  !.status = status]]
    /\ mu' = RLock
    /\ ncalls' = ncalls + 1
    /\ UNCHANGED <<orders, req, heap, insertLog>>

\* GetOrders: the body and the deferred i.m.RUnlock()
GetOrdersBody(t) ==
    /\ thr[t].pc = "cs" /\ thr[t].op = "GetOrders"
    /\ \E iter \in Iterations(orders) :
         thr' = [thr EXCEPT ![t].pc = "done",
                               ![t].res = GetOrders(orders, thr[t].status, iter)]
    /\ mu' = RUnlock
    /\ UNCHANGED <<orders, req, heap, ncalls, insertLog>>

StoreNext ==
    \/ \E t \in Threads : InsertOrderLock(t)
    \/ \E t \in Threads : InsertOrderBody(t)
    \/ \E t \in Threads : SetOrderStatusLock(t)
    \/ \E t \in Threads : SetOrderStatusBody(t)
    \/ \E t \in Threads : GetOrderRLock(t)
    \/ \E t \in Threads : GetOrderBody(t)
    \/ \E t \in Threads : GetOrdersRLock(t)
    \/ \E t \in Threads : GetOrdersBody(t)

StoreSpec == Init /\ [][StoreNext]_vars

\* GetOrders over every content the map can have: any set of records under
\* their own ids, each in any status (InsertOrder and SetOrderStatus build
\* all of them)
StoredOrders(id) ==
    {[ID |-> id, CustomerEmail |-> GoodEmail, LineItems |-> Widgets, Status |-> st] :
        st \in Statuses}
StoreContents ==
    UNION {{f \in [ids -> UNION {StoredOrders(id) : id \in ids}] :
               \A id \in ids : f[id].ID = id} : ids \in SUBSET StoreIds}

InitStored ==
    /\ orders \in StoreContents
    /\ req = [r \in Reqs |-> IdleReq]
    /\ mu = [writer |-> FALSE, readers |-> 0]
    /\ thr = [t \in Threads |-> IdleThr]
    /\ ncalls = 0
    /\ insertLog \in Iterations(orders)
    /\ heap = << >>

ListNext ==
    \/ \E t \in Threads : GetOrdersRLock(t)
    \/ \E t \in Threads : GetOrdersBody(t)

ListSpec == InitStored /\ [][ListNext]_vars

----------------------------------------------------------------------------
(* api.getOrders: GET /orders?status=... *)

\* the values a client can give the status query parameter ("" when absent)
StatusQueries == {"pending", "charged", "fulfilled", "cancelled", "", "shipped"}

\* a switch on statusStr whose default case asks for all orders
ParseStatusLenient(statusStr) ==
    IF statusStr = "pending" THEN [ok |-> TRUE, status |-> OrderStatusPending]
    ELSE IF statusStr = "charged" THEN [ok |-> TRUE, status |-> OrderStatusCharged]
    ELSE IF statusStr = "fulfilled" THEN [ok |-> TRUE, status |-> OrderStatusFulfilled]
    ELSE IF statusStr = "cancelled" THEN [ok |-> TRUE, status |-> OrderStatusCancelled]
    ELSE [ok |-> TRUE, status |-> AllOrders]

\* the switch on statusStr: the filter handed to the store, or no filter at all
ParseStatus(statusStr) ==
    IF statusStr = "pending" THEN [ok |-> TRUE, status |-> OrderStatusPending]
    ELSE IF statusStr = "charged" THEN [ok |-> TRUE, status |-> OrderStatusCharged]
    ELSE IF statusStr = "fulfilled" THEN [ok |-> TRUE, status |-> OrderStatusFulfilled]
    ELSE IF statusStr = "cancelled" THEN [ok |-> TRUE, status |-> OrderStatusCancelled]
    ELSE IF statusStr = "" THEN [ok |-> TRUE, status |-> AllOrders]
    ELSE [ok |-> FALSE, status |-> OrderStatusPending]

\* a getOrders that hands the store's slice to the response as it is
NonNilSkipped(slice) == slice

\* `if orders == nil { orders = []storage.Order{} }`
NonNil(slice) == IF slice.isNil THEN EmptySlice ELSE slice

\* getOrdersRes on the wire: a nil slice is encoded as null, any other as an array
getOrdersRes(slice) == [Orders |-> slice]

getOrders(r) ==
    /\ CanStart(r)
    /\ \E statusStr \in StatusQueries, iter \in Iterations(orders) :
         LET q == [IdleReq EXCEPT !.kind = "list", !.query = statusStr]
             parsed == ParseStatus(statusStr)
             got == GetOrders(orders, parsed.status, iter)
             ql == [q EXCEPT !.log = Append(@, ListCall(parsed.status, got))]
         IN  req' = [req EXCEPT ![r] =
                  IF ~parsed.ok
                  THEN Respond(q, handleError(StatusBadRequest, ErrCodeInvalidStatus))
                  ELSE IF got.err # Nil
                  THEN Respond(ql, handleError(StatusInternalServerError, ErrCodeInternalError))
                  ELSE Respond(ql, JSON(StatusOK, getOrdersRes(NonNil(got.orders))))]
    /\ UNCHANGED <<orders, StoreSide>>

----------------------------------------------------------------------------
(* api.getOrder: GET /orders/:id *)

\* GET /orders/:id arrives: the middleware runs
getOrderFetch(r) ==
    \E id \in PathIds : orderFetchMiddleware(r, "get", id, "", TRUE)

getOrderRes(order) == [Order |-> order]

\* the handler answers with the order the middleware fetched
getOrder(r) ==
    /\ req[r].pc = "handler" /\ req[r].kind = "get"
    /\ req' = [req EXCEPT ![r] = Respond(req[r], JSON(StatusOK, getOrderRes(req[r].order)))]
    /\ UNCHANGED <<orders, StoreSide>>

ReadNext ==
    \/ \E r \in Reqs : getOrders(r)
    \/ \E r \in Reqs : getOrderFetch(r)
    \/ \E r \in Reqs : getOrder(r)

\* read-only requests over every content the store can have
ReadSpec == InitStored /\ [][ReadNext]_vars

\* the lifecycle routes with clients that may cancel their request while
\* the charge service is being called
CtxNext ==
    \/ \E r \in Reqs : postOrders(r)
    \/ \E r \in Reqs : chargeOrderFetch(r)
    \/ \E r \in Reqs : chargeOrderCallCtx(r)
    \/ \E r \in Reqs : chargeOrderWrite(r)
    \/ \E r \in Reqs : cancelOrderFetch(r)
    \/ \E r \in Reqs : cancelOrderCallCtx(r)
    \/ \E r \in Reqs : cancelOrderWrite(r)
    \/ \E id \in GenIds : Fulfil(id)

CtxSpec == Init /\ [][CtxNext]_vars

\* the lifecycle routes with SetOrderStatus going to the SQL store, whose
\* database calls can fail
SqlNext ==
    \/ \E r \in Reqs : postOrders(r)
    \/ \E r \in Reqs : chargeOrderFetch(r)
    \/ \E r \in Reqs : chargeOrderCall(r)
    \/ \E r \in Reqs : chargeOrderWriteSql(r)
    \/ \E r \in Reqs : cancelOrderFetch(r)
    \/ \E r \in Reqs : cancelOrderCall(r)
    \/ \E r \in Reqs : cancelOrderWriteSql(r)
    \/ \E id \in GenIds : Fulfil(id)

SqlSpec == Init /\ [][SqlNext]_vars

\* every route of the handler over a store that starts empty
ApiNext == Next \/ ReadNext

\* the create and read routes, the bodies posted having any quantity
QuantityNext ==
    \/ \E r \in Reqs : postOrdersAnyQuantity(r)
    \/ \E r \in Reqs : getOrderFetch(r)
    \/ \E r \in Reqs : getOrder(r)

QuantitySpec == Init /\ [][QuantityNext]_vars

----------------------------------------------------------------------------
(* chargeOrder and getOrder over the memory store, the taking of i.m and the
   call of the charge service each a step of its own *)

PendingOrder == [ID |-> "a1f0", CustomerEmail |-> GoodEmail, LineItems |-> Widgets,
                 Status |-> OrderStatusPending]

\* the server after one postOrders
InitPending ==
    /\ orders = ("a1f0" :> PendingOrder)
    /\ req = [r \in Reqs |-> IdleReq]
    /\ mu = [writer |-> FALSE, readers |-> 0]
    /\ thr = [t \in Threads |-> IdleThr]
    /\ ncalls = 0
    /\ insertLog = << "a1f0" >>
    /\ heap = << >>

\* a GetOrder whose RUnlock runs on the successful return only
GetOrderDeferOnSuccess(err) == IF err = Nil THEN RUnlock ELSE mu

\* GetOrder: defer i.m.RUnlock() runs on the return with err, whatever it is
GetOrderDefer(err) == RUnlock

\* SetOrderStatus: defer i.m.Unlock() runs on the return with err
SetOrderStatusDefer(err) == Unlock

\* orderFetchMiddleware calls i.stor.GetOrder: i.m.RLock()
fetchRLock(r) ==
    /\ CanStart(r) /\ CanRLock
    /\ \E kind \in {"charge", "get"}, id \in PathIds :
         req' = [req EXCEPT ![r] = [IdleReq EXCEPT !.pc = "fetch-cs", !.kind = kind,
                                                  !.id = id, !.token = "tok_visa"]]
    /\ mu' = RLock
    /\ UNCHANGED <<orders, thr, ncalls, insertLog, heap>>

\* GetOrder's body and deferred RUnlock, then the rest of the middleware;
\* getOrder answers with the order at once
fetchBody(r) ==
    /\ req[r].pc = "fetch-cs"
    /\ LET q == req[r]
           got == GetOrder(orders, q.id)
       IN  /\ req' = [req EXCEPT ![r] =
                  IF got.err = ErrOrderNotFound
                  THEN Respond(q, handleError(StatusNotFound, ErrCodeOrderNotFound))
                  ELSE IF got.err # Nil
                  THEN Respond(q, handleError(StatusInternalServerError,
                                              ErrCodeInternalError))
                  ELSE IF q.kind = "get"
                  THEN Respond([q EXCEPT !.order = got.order],
                               JSON(StatusOK, getOrderRes(got.order)))
                  ELSE [q EXCEPT !.pc = "handler", !.order = got.order]]
           /\ mu' = GetOrderDefer(got.err)
    /\ UNCHANGED <<orders, thr, ncalls, insertLog, heap>>

\* chargeOrder: the eligibility test, then chargeService.Post is sent
chargeOrderSend(r) ==
    /\ req[r].pc = "handler" /\ req[r].kind = "charge"
    /\ req' = [req EXCEPT ![r] =
           IF ~ChargeEligible(req[r].order)
           THEN Respond(req[r], handleError(StatusConflict, ErrCodeOrderNotEligible))
           ELSE [req[r] EXCEPT !.pc = "calling"]]
    /\ UNCHANGED <<orders, StoreSide>>

\* chargeService.Post returns with the reply of the charge service
chargeOrderReply(r) ==
    /\ req[r].pc = "calling"
    /\ \E reply \in ChargeReplies :
         LET q == req[r]
             qc == [q EXCEPT !.log = Append(@, ChargeCall(q.token, ChargeAmount(q.order),
                                                          reply))]
         IN  req' = [req EXCEPT ![r] =
                  IF innerChargeOrder(reply) # Nil
                  THEN Respond(qc, handleError(StatusInternalServerError,
                                               ErrCodeChargeServiceError))
                  ELSE [qc EXCEPT !.pc = "write"]]
    /\ UNCHANGED <<orders, StoreSide>>

\* chargeOrder calls i.stor.SetOrderStatus: i.m.Lock()
chargeOrderWriteLock(r) ==
    /\ req[r].pc = "write" /\ CanLock
    /\ req' = [req EXCEPT ![r].pc = "write-cs"]
    /\ mu' = Lock
    /\ UNCHANGED <<orders, thr, ncalls, insertLog, heap>>

\* SetOrderStatus's body and deferred Unlock, then the answer of chargeOrder
chargeOrderWriteBody(r) ==
    /\ req[r].pc = "write-cs"
    /\ LET q == req[r]
           set == SetOrderStatus(orders, q.order.ID, OrderStatusCharged)
           ql == [q EXCEPT !.log = Append(@, SetCall(q.order.ID, OrderStatusCharged, set.err))]
       IN  /\ orders' = set.orders
           /\ req' = [req EXCEPT ![r] =
                  IF set.err # Nil
                  THEN Respond(ql, handleError(StatusInternalServerError, ErrCodeInternalError))
                  ELSE Respond(ql, JSON(StatusOK, [ChargedCents |-> TotalCents(q.order)]))]
           /\ mu' = SetOrderStatusDefer(set.err)
    /\ UNCHANGED <<thr, ncalls, insertLog, heap>>

LockNext ==
    \/ \E r \in Reqs : fetchRLock(r)
    \/ \E r \in Reqs : fetchBody(r)
    \/ \E r \in Reqs : chargeOrderSend(r)
    \/ \E r \in Reqs : chargeOrderReply(r)
    \/ \E r \in Reqs : chargeOrderWriteLock(r)
    \/ \E r \in Reqs : chargeOrderWriteBody(r)

\* every goroutine that can take a step takes one in the end, and the
\* charge service answers every call
LockFairness ==
    \A r \in Reqs :
        /\ WF_vars(fetchBody(r))
        /\ WF_vars(chargeOrderSend(r))
        /\ WF_vars(chargeOrderReply(r))
        /\ WF_vars(chargeOrderWriteLock(r))
        /\ WF_vars(chargeOrderWriteBody(r))

LockSpec == InitPending /\ [][LockNext]_vars /\ LockFairness

----------------------------------------------------------------------------
(* storage.Instance.InsertOrder called by several goroutines: the SELECT of
   its GetOrder and its INSERT are two statements on the database, with no
   transaction and no lock around them *)

\* the id is filled in and i.GetOrder runs its SELECT: when it returns no
\* error the order exists, with any error InsertOrder goes on to the INSERT
SqlInsertOrderGet(t) ==
    /\ CanCall(t)
    /\ \E order \in InsertArgs, uuid \in GenIds, getOutcome \in DbOutcomes :
         LET o == IF order.ID = "" THEN [order EXCEPT !.ID = uuid] ELSE order
             call == [IdleThr EXCEPT !.op = "SqlInsertOrder", !.order = order,
                                     !.id = o.ID, !.rnd = uuid]
         IN  thr' = [thr EXCEPT ![t] =
                  IF getOutcome = Nil /\ o.ID \in DOMAIN orders
                  THEN [call EXCEPT !.pc = "done",
                                    !.res = [id |-> "", err |-> ErrOrderExists,
                                             get |-> getOutcome, exec |-> Nil]]
                  ELSE [call EXCEPT !.pc = "insert", !.res = [get |-> getOutcome]]]
    /\ ncalls' = ncalls + 1
    /\ UNCHANGED <<orders, req, mu, insertLog, heap>>

\* i.db.ExecContext runs the INSERT; the table is keyed by id, so the
\* INSERT of an id that is in a row by now is refused by the database
SqlInsertOrderExec(t) ==
    /\ thr[t].pc = "insert" /\ thr[t].op = "SqlInsertOrder"
    /\ \E execOutcome \in DbOutcomes :
         LET id == thr[t].id
             o == [thr[t].order EXCEPT !.ID = id]
             refused == execOutcome # Nil \/ id \in DOMAIN orders
         IN  /\ orders' = IF refused THEN orders ELSE (id :> o) @@ orders
             /\ insertLog' = IF refused THEN insertLog ELSE Append(insertLog, id)
             /\ thr' = [thr EXCEPT ![t].pc = "done",
                                   ![t].res = [id |-> id,
                                               err |-> IF refused THEN DbErr ELSE Nil,
                                               get |-> thr[t].res.get,
                                               exec |-> execOutcome]]
    /\ UNCHANGED <<req, mu, ncalls, heap>>

SqlInsertNext ==
    \/ \E t \in Threads : SqlInsertOrderGet(t)
    \/ \E t \in Threads : SqlInsertOrderExec(t)

SqlInsertSpec == Init /\ [][SqlInsertNext]_vars

ApiSpec == Init /\ [][ApiNext]_vars

----------------------------------------------------------------------------
(* storage.MemoryInstance and the Order values its callers keep.            *)
(* Order.LineItems is a Go slice. In this specification a slice is held as  *)
(* what it is, a header (ptr, len) pointing at a backing array on the heap: *)
(* copying an Order (passing it, returning it, storing it in the map)       *)
(* copies the header, not the array. The store methods are the operators    *)
(* above, each run as one step under i.m.                                   *)

SliceOf(ptr, len) == [ptr |-> ptr, len |-> len]

\* the order as its holder reads it: the elements behind the slice header
Deref(h, order) ==
    [order EXCEPT !.LineItems = SubSeq(h[order.LineItems.ptr], 1, order.LineItems.len)]

\* a caller may call a store method whenever it is not inside one
CallerCanCall(t) ==
    /\ thr[t].pc \in {"idle", "done", "mutated"}
    /\ ncalls < MaxCalls
    /\ IF t = 1 THEN TRUE ELSE thr[t - 1].pc # "idle"

\* the value a caller writes into a line item it holds
ScribbledQuantity == 99

\* the caller builds an order around a new []LineItem and inserts it; it
\* keeps the order value it passed
CallerInsertOrder(t) ==
    /\ CallerCanCall(t)
    /\ \E id \in StoreIds \cup {""}, rnd \in RandOutcomes :
         LET order == [ID |-> id, CustomerEmail |-> GoodEmail,
                       LineItems |-> SliceOf(Len(heap) + 1, Len(Widgets)),
                       Status |-> OrderStatusPending]
             ins == InsertOrder(orders, order, rnd)
         IN  /\ heap' = Append(heap, Widgets)
             /\ orders' = ins.orders
             /\ thr' = [thr EXCEPT ![t] = [IdleThr EXCEPT !.pc = "done", !.op = "InsertOrder",
                                                      !.order = order, !.rnd = rnd,
                                                      !.res = [id |-> ins.id, err |-> ins.err]]]
             /\ insertLog' = IF ins.err = Nil THEN Append(insertLog, ins.id) ELSE insertLog
    /\ ncalls' = ncalls + 1
    /\ UNCHANGED <<req, mu>>

\* the caller keeps the order GetOrder returned
CallerGetOrder(t) ==
    /\ CallerCanCall(t)
    /\ \E id \in StoreIds :
         thr' = [thr EXCEPT ![t] = [IdleThr EXCEPT !.pc = "done", !.op = "GetOrder", !.id = id,
                                                  !.res = GetOrder(orders, id)]]
    /\ ncalls' = ncalls + 1
    /\ UNCHANGED <<orders, req, mu, insertLog, heap>>

\* the caller keeps the orders GetOrders returned
CallerGetOrders(t) ==
    /\ CallerCanCall(t)
    /\ \E status \in Filters, iter \in Iterations(orders) :
         thr' = [thr EXCEPT ![t] = [IdleThr EXCEPT !.pc = "done", !.op = "GetOrders",
                                                  !.status = status,
                                                  !.res = GetOrders(orders, status, iter)]]
    /\ ncalls' = ncalls + 1
    /\ UNCHANGED <<orders, req, mu, insertLog, heap>>

\* the Order values a caller holds after its call
Held(t) ==
    IF thr[t].op = "InsertOrder" THEN {thr[t].order}
    ELSE IF thr[t].op = "GetOrder" /\ thr[t].res.err = Nil THEN {thr[t].res.order}
    ELSE IF thr[t].op = "GetOrders"
    THEN {thr[t].res.orders.elems[i] : i \in DOMAIN thr[t].res.orders.elems}
    ELSE {}

\* the caller assigns to an element of the line items of an order it holds:
\* o.LineItems[i].Quantity = ...
CallerWritesLineItem(t) ==
    /\ thr[t].pc = "done"
    /\ \E o \in Held(t) : \E i \in 1..o.LineItems.len :
         heap' = [heap EXCEPT ![o.LineItems.ptr][i].Quantity = ScribbledQuantity]
    /\ thr' = [thr EXCEPT ![t].pc = "mutated"]
    /\ UNCHANGED <<orders, req, mu, ncalls, insertLog>>

\* the caller assigns to the fields of an order it holds: o.CustomerEmail =
\* ..., o.Status = ...
Scribbled(o) == [o EXCEPT !.CustomerEmail = BadEmail, !.Status = OrderStatusCancelled]

CallerWritesFields(t) ==
    /\ thr[t].pc = "done" /\ Held(t) # {}
    /\ thr' = [thr EXCEPT ![t] =
                 IF thr[t].op = "InsertOrder"
                 THEN [thr[t] EXCEPT !.pc = "mutated", !.order = Scribbled(@)]
                 ELSE IF thr[t].op = "GetOrder"
                 THEN [thr[t] EXCEPT !.pc = "mutated", !.res.order = Scribbled(@)]
                 ELSE [thr[t] EXCEPT !.pc = "mutated", !.res.orders.elems[1] = Scribbled(@)]]
    /\ UNCHANGED <<orders, req, mu, ncalls, insertLog, heap>>

CallerNext ==
    \/ \E t \in Threads : CallerInsertOrder(t)
    \/ \E t \in Threads : CallerGetOrder(t)
    \/ \E t \in Threads : CallerGetOrders(t)
    \/ \E t \in Threads : CallerWritesLineItem(t)
    \/ \E t \in Threads : CallerWritesFields(t)

CallerSpec == Init /\ [][CallerNext]_vars

----------------------------------------------------------------------------
(* Properties of the lifecycle handlers and of the store *)

\* the calls of a request's log, by kind
ChargeCallsOf(q) == SelectSeq(q.log, LAMBDA e : e.ev = "charge")
SetCallsOf(q) == SelectSeq(q.log, LAMBDA e : e.ev = "set")

NotEligible == handleError(StatusConflict, ErrCodeOrderNotEligible)
ChargeServiceError == handleError(StatusInternalServerError, ErrCodeChargeServiceError)

\* request r has passed the middleware with an order in hand
Holds(r, kind) == req[r].kind = kind /\ req[r].pc # "idle" /\ req[r].order.ID # ""

\* request r takes its handler step / its write step in this transition
HandlerStep(r, kind) ==
    req[r].kind = kind /\ req[r].pc = "handler" /\ req'[r].pc # "handler"
WriteStep(r, kind) ==
    req[r].kind = kind /\ req[r].pc = "write" /\ req'[r].pc = "done"

\* the edges of the order state machine
LegalEdges ==
    { <<OrderStatusPending, OrderStatusCharged>>,
      <<OrderStatusPending, OrderStatusCancelled>>,
      <<OrderStatusCharged, OrderStatusCancelled>>,
      <<OrderStatusCharged, OrderStatusFulfilled>> }

\* C1: charge requests that all found the same order Pending (so they
\* overlap), with every charge call accepted and no cancel request on the
\* order: once all have answered, exactly one got 200, the others got 409
\* order_not_eligible, the charge service was called once and the stored
\* status is Charged (or Fulfilled, if the fulfilment system has moved on).
C1_OneChargeWins ==
    \A id \in GenIds :
        LET S == {r \in Reqs : /\ Holds(r, "charge") /\ req[r].order.ID = id
                               /\ req[r].order.Status = OrderStatusPending
                               /\ req[r].bodyOK}
            won == {r \in S : req[r].resp.status = StatusOK}
        IN  ( /\ Cardinality(S) >= 2
              /\ \A r \in S : req[r].pc = "done"
              /\ \A r \in S : \A i \in DOMAIN req[r].log :
                     req[r].log[i].ev = "charge" => req[r].log[i].reply = Accepted
              /\ \A r \in Reqs : ~(req[r].kind = "cancel" /\ req[r].id = id) )
            => /\ Cardinality(won) = 1
               /\ \A r \in S \ won : req[r].resp = NotEligible
               /\ \A r \in S \ won : ChargeCallsOf(req[r]) = << >>
               /\ orders[id].Status \in {OrderStatusCharged, OrderStatusFulfilled}

\* C2: every step that changes a stored status goes along an edge of the
\* state machine, and every record enters the store as Pending.
C2_LegalTransitionsOnly ==
    [][ /\ \A id \in DOMAIN orders :
              orders'[id].Status # orders[id].Status
              => <<orders[id].Status, orders'[id].Status>> \in LegalEdges
        /\ \A id \in DOMAIN orders' \ DOMAIN orders :
              orders'[id].Status = OrderStatusPending ]_vars

\* C3: no id is returned by two successful InsertOrder calls; an InsertOrder
\* whose id (given, or generated for an empty one) is a key of the map fails
\* with ErrOrderExists and leaves the whole map as it was.
C3_InsertUnique ==
    /\ [](\A i, j \in DOMAIN insertLog : i # j => insertLog[i] # insertLog[j])
    /\ [][ \A t \in Threads :
             (thr[t].pc = "cs" /\ thr[t].op = "InsertOrder" /\ thr'[t].pc = "done")
             => LET given == thr[t].order.ID
                    key == IF given = "" THEN thr'[t].rnd ELSE given
                IN  /\ key \in DOMAIN orders
                       => (thr'[t].res.err = ErrOrderExists /\ orders' = orders)
                    /\ thr'[t].res.err = Nil
                       => /\ key \notin DOMAIN orders
                          /\ thr'[t].res.id = key
                          /\ \A id \in DOMAIN orders : orders'[id] = orders[id] ]_vars

\* C3 witness: a caller-supplied id collided with a stored record, which
\* still carries the e-mail of the insert that created it
W_C3 ==
    \E t \in Threads :
        /\ thr[t].pc = "done" /\ thr[t].op = "InsertOrder"
        /\ thr[t].order.ID # "" /\ thr[t].res.err = ErrOrderExists
        /\ thr[t].order.ID \in DOMAIN orders
        /\ orders[thr[t].order.ID].CustomerEmail # thr[t].order.CustomerEmail
        /\ Len(insertLog) >= 2

\* the refund (or charge) call request r has just made was not accepted
LastCallFailed(r) ==
    /\ Len(req'[r].log) = Len(req[r].log) + 1
    /\ req'[r].log[Len(req'[r].log)].ev = "charge"
    /\ req'[r].log[Len(req'[r].log)].reply # Accepted

\* C4: when cancelOrder holds a Charged order and its refund call fails, it
\* answers 500 charge_service_error, never calls SetOrderStatus, and the
\* store (so the order's Charged status) is left as it was.
C4_RefundGating ==
    [][ \A r \in Reqs :
          ( /\ HandlerStep(r, "cancel")
            /\ req[r].order.Status = OrderStatusCharged
            /\ LastCallFailed(r) )
          => /\ req'[r].pc = "done"
             /\ req'[r].resp = ChargeServiceError
             /\ SetCallsOf(req'[r]) = << >>
             /\ orders' = orders ]_vars

\* C4 witness: a cancel ended on a failed refund and the order is Charged
W_C4 ==
    \E r \in Reqs :
        /\ Holds(r, "cancel") /\ req[r].pc = "done"
        /\ req[r].order.Status = OrderStatusCharged
        /\ Len(req[r].log) = 1 /\ req[r].log[1].reply = Rejected
        /\ req[r].resp = ChargeServiceError
        /\ orders[req[r].id].Status = OrderStatusCharged

\* C5: when chargeOrder tests eligibility and the persisted status of the
\* order is Charged, Fulfilled or Cancelled at that moment, it answers 409
\* order_not_eligible, calls nothing and changes nothing.
C5_ChargeTestsPersistedStatus ==
    [][ \A r \in Reqs :
          ( /\ HandlerStep(r, "charge")
            /\ req[r].bodyOK
            /\ orders[req[r].id].Status # OrderStatusPending )
          => /\ req'[r].resp = NotEligible
             /\ req'[r].log = << >>
             /\ orders' = orders ]_vars

\* C5 failing run ends here: a charge passed the eligibility test although
\* the stored status was already Charged
W_C5 ==
    \E r \in Reqs :
        /\ Holds(r, "charge") /\ req[r].pc = "write"
        /\ orders[req[r].id].Status = OrderStatusCharged

\* C6: a chargeOrder that answers 200 held a Pending order, called the
\* charge service once with (the request's card token, the order's total)
\* and got 201, then called SetOrderStatus(id, Charged) without error; the
\* stored status is Charged when it answers and chargedCents is the total.
\* No chargeOrder calls SetOrderStatus before its charge call was accepted.
C6_ChargeThenWrite ==
    /\ [][ \A r \in Reqs :
             (WriteStep(r, "charge") /\ req'[r].resp.status = StatusOK)
             => LET q == req'[r]
                    total == TotalCents(orders'[q.id])
                IN  /\ q.order.Status = OrderStatusPending
                    /\ q.log = << ChargeCall(q.token, total, Accepted),
                                  SetCall(q.id, OrderStatusCharged, Nil) >>
                    /\ orders'[q.id].Status = OrderStatusCharged
                    /\ q.resp.body.ChargedCents = total ]_vars
    /\ [](\A r \in Reqs : \A i \in DOMAIN req[r].log :
             (req[r].kind = "charge" /\ req[r].log[i].ev = "set")
             => /\ i = 2
                /\ req[r].log[1].ev = "charge"
                /\ req[r].log[1].reply = Accepted)

\* C6 witness: an answered charge of 2000 cents with the second token
W_C6 ==
    \E r \in Reqs :
        /\ Holds(r, "charge") /\ req[r].pc = "done"
        /\ req[r].resp = JSON(StatusOK, [ChargedCents |-> 2000])
        /\ req[r].token = "tok_amex"
        /\ Len(req[r].log) = 2
        /\ orders[req[r].id].Status = OrderStatusCharged

\* C7: when the charge call of chargeOrder fails (no response, or a status
\* other than 201), it answers 500 charge_service_error, never calls
\* SetOrderStatus, and the store (so a Pending status) is left as it was.
C7_ChargeFailureNoWrite ==
    /\ [][ \A r \in Reqs :
             (HandlerStep(r, "charge") /\ LastCallFailed(r))
             => /\ req'[r].pc = "done"
                /\ req'[r].resp = ChargeServiceError
                /\ SetCallsOf(req'[r]) = << >>
                /\ orders' = orders ]_vars
    /\ [](\A r \in Reqs :
             ( /\ req[r].kind = "charge"
               /\ \E i \in DOMAIN req[r].log :
                     req[r].log[i].ev = "charge" /\ req[r].log[i].reply # Accepted )
             => /\ req[r].pc = "done"
                /\ req[r].resp = ChargeServiceError
                /\ SetCallsOf(req[r]) = << >>)

\* C7 witness: a charge ended on a transport error and the order is Pending
W_C7 ==
    \E r \in Reqs :
        /\ Holds(r, "charge") /\ req[r].pc = "done"
        /\ Len(req[r].log) = 1 /\ req[r].log[1].reply = Unreachable
        /\ req[r].resp = ChargeServiceError
        /\ orders[req[r].id].Status = OrderStatusPending

\* C8: a cancelOrder that answers 200 for an order it held as Charged called
\* the charge service once with amountCents = -total and got 201, then
\* called SetOrderStatus(id, Cancelled) without error; its response carries
\* refundedCents = total and the stored status is Cancelled when it answers.
C8_RefundThenCancel ==
    /\ [][ \A r \in Reqs :
             ( /\ WriteStep(r, "cancel")
               /\ req[r].order.Status = OrderStatusCharged
               /\ req'[r].resp.status = StatusOK )
             => LET q == req'[r]
                    total == TotalCents(orders'[q.id])
                IN  /\ Len(q.log) = 2
                    /\ q.log[1].ev = "charge"
                    /\ q.log[1].AmountCents = -total
                    /\ q.log[1].reply = Accepted
                    /\ q.log[2] = SetCall(q.id, OrderStatusCancelled, Nil)
                    /\ q.resp.body.RefundedCents = total
                    /\ orders'[q.id].Status = OrderStatusCancelled ]_vars
    /\ [](\A r \in Reqs : \A i \in DOMAIN req[r].log :
             ( /\ req[r].kind = "cancel" /\ req[r].order.Status = OrderStatusCharged
               /\ req[r].log[i].ev = "set" )
             => /\ i = 2
                /\ req[r].log[1].ev = "charge"
                /\ req[r].log[1].reply = Accepted)

\* C8 witness: a charged order of 2000 cents was cancelled with a refund
W_C8 ==
    \E r \in Reqs :
        /\ Holds(r, "cancel") /\ req[r].pc = "done"
        /\ req[r].order.Status = OrderStatusCharged
        /\ req[r].resp.status = StatusOK
        /\ req[r].resp.body.RefundedCents = 2000
        /\ req[r].log[1].AmountCents = -2000
        /\ orders[req[r].id].Status = OrderStatusCancelled

\* C9: a cancelOrder of an order that is Pending when the request takes it
\* never calls the charge service; it sets the stored status to Cancelled,
\* answers 200, and its response carries no refundedCents.
C9_CancelPending ==
    /\ [](\A r \in Reqs :
             (Holds(r, "cancel") /\ req[r].order.Status = OrderStatusPending)
             => /\ ChargeCallsOf(req[r]) = << >>
                /\ req[r].pc = "done" => req[r].resp.status = StatusOK)
    /\ [][ \A r \in Reqs :
             (WriteStep(r, "cancel") /\ req[r].order.Status = OrderStatusPending)
             => /\ orders'[req[r].id].Status = OrderStatusCancelled
                /\ req'[r].log = << SetCall(req[r].id, OrderStatusCancelled, Nil) >>
                /\ req'[r].resp.body.OrderID = req[r].id
                /\ ~WireHasRefundedCents(req'[r].resp.body) ]_vars

\* C9 witness: a pending order was cancelled
W_C9 ==
    \E r \in Reqs :
        /\ Holds(r, "cancel") /\ req[r].pc = "done"
        /\ req[r].order.Status = OrderStatusPending
        /\ req[r].resp.status = StatusOK
        /\ orders[req[r].id].Status = OrderStatusCancelled

\* C10: a cancelOrder of an order that is Fulfilled or Cancelled when the
\* request takes it answers 409 order_not_eligible, calls neither the
\* charge service nor SetOrderStatus, and its steps leave the store alone.
C10_CancelTerminal ==
    /\ [](\A r \in Reqs :
             ( /\ Holds(r, "cancel")
               /\ req[r].order.Status \in {OrderStatusFulfilled, OrderStatusCancelled} )
             => /\ req[r].pc \in {"handler", "done"}
                /\ req[r].log = << >>
                /\ req[r].pc = "done" => req[r].resp = NotEligible)
    /\ [][ \A r \in Reqs :
             ( /\ req[r].kind = "cancel" /\ req'[r] # req[r]
               /\ req[r].order.Status \in {OrderStatusFulfilled, OrderStatusCancelled} )
             => orders' = orders ]_vars

\* C10 witness: the cancel of a Fulfilled order was refused and the order is
\* still Fulfilled
W_C10 ==
    \E r \in Reqs :
        /\ Holds(r, "cancel") /\ req[r].pc = "done"
        /\ req[r].resp = NotEligible
        /\ req[r].order.Status = OrderStatusFulfilled
        /\ orders[req[r].id].Status = OrderStatusFulfilled

\* C11: cancel requests that all found the same order Charged (so they
\* overlap), with every refund call accepted: once all have answered, at most
\* one got 200, the others got 409 order_not_eligible without calling the
\* charge service, so at most one refund was issued for the order.
C11_OneCancelWins ==
    \A id \in GenIds :
        LET S == {r \in Reqs : /\ Holds(r, "cancel") /\ req[r].order.ID = id
                               /\ req[r].order.Status = OrderStatusCharged}
            won == {r \in S : req[r].resp.status = StatusOK}
        IN  ( /\ Cardinality(S) >= 2
              /\ \A r \in S : req[r].pc = "done"
              /\ \A r \in S : \A i \in DOMAIN req[r].log :
                     req[r].log[i].ev = "charge" => req[r].log[i].reply = Accepted )
            => /\ Cardinality(won) <= 1
               /\ \A r \in S \ won : req[r].resp = NotEligible
               /\ Cardinality({r \in S : ChargeCallsOf(req[r]) # << >>}) <= 1

\* C11 failing run ends here: two cancels of the same order both answered
\* 200 and each had its refund accepted
W_C11 ==
    \E r1, r2 \in Reqs :
        /\ r1 # r2 /\ req[r1].id = req[r2].id
        /\ \A r \in {r1, r2} :
              /\ Holds(r, "cancel") /\ req[r].pc = "done"
              /\ req[r].resp.status = StatusOK
              /\ req[r].resp.body.RefundedCents = 2000
              /\ ChargeCallsOf(req[r]) # << >>

\* thread t leaves the critical section of method op in this transition
BodyStep(t, op) == thr[t].pc = "cs" /\ thr[t].op = op /\ thr'[t].pc = "done"

\* how often the order with this id occurs in a sequence of orders
Occurrences(elems, id) == Cardinality({i \in DOMAIN elems : elems[i].ID = id})

\* C12: GetOrders(status) returns, without error, exactly the stored orders
\* whose status equals the filter, each once and as it is stored, and
\* GetOrders(-1) returns every stored order, each once.
C12_ListFilter ==
    [][ \A t \in Threads :
          BodyStep(t, "GetOrders")
          => LET status == thr[t].status
                 elems == thr'[t].res.orders.elems
             IN  /\ thr'[t].res.err = Nil
                 /\ \A id \in DOMAIN orders :
                       Occurrences(elems, id) =
                           IF status = AllOrders \/ orders[id].Status = status THEN 1 ELSE 0
                 /\ \A i \in DOMAIN elems :
                       /\ elems[i].ID \in DOMAIN orders
                       /\ elems[i] = orders[elems[i].ID] ]_vars

\* C12 witness: of two stored orders, a Charged and a Cancelled one, a
\* GetOrders(Charged) returned the first only and a GetOrders(-1) both
W_C12 ==
    /\ DOMAIN orders = {"a1f0", "b2e9"}
    /\ orders["a1f0"].Status = OrderStatusCharged
    /\ orders["b2e9"].Status = OrderStatusCancelled
    /\ \E t1, t2 \in Threads :
          /\ thr[t1].pc = "done" /\ thr[t1].op = "GetOrders"
          /\ thr[t1].status = OrderStatusCharged
          /\ thr[t1].res.orders.elems = << orders["a1f0"] >>
          /\ thr[t2].pc = "done" /\ thr[t2].op = "GetOrders"
          /\ thr[t2].status = AllOrders
          /\ thr[t2].res.orders.elems = << orders["b2e9"], orders["a1f0"] >>

\* request r is a getOrders request taking its one step in this transition
ListStep(r) == req[r].pc = "idle" /\ req'[r].pc = "done" /\ req'[r].kind = "list"

\* the stored orders a filter selects
Matching(status) ==
    {id \in DOMAIN orders : status = AllOrders \/ orders[id].Status = status}

InCS(t, op) == thr[t].pc = "cs" /\ thr[t].op = op

\* C14: from the RLock of a GetOrders to its return no InsertOrder or
\* SetOrderStatus changes the map, so what it returns is the store as it is
\* at every instant of that interval: each order of the map that passes the
\* filter exactly once, with the status it has then, and nothing else.
C14_ListSnapshot ==
    /\ [][ (\E t \in Threads : InCS(t, "GetOrders")) => orders' = orders ]_vars
    /\ [][ \A t \in Threads :
             BodyStep(t, "GetOrders")
             => LET elems == thr'[t].res.orders.elems
                IN  /\ {elems[i] : i \in DOMAIN elems}
                          = {orders[id] : id \in Matching(thr[t].status)}
                    /\ Len(elems) = Cardinality(Matching(thr[t].status)) ]_vars

\* C14 witness: a GetOrders ran between an InsertOrder and a SetOrderStatus
\* of other calls: it returned the order as Pending, which is Charged by now
W_C14 ==
    \E t, u \in Threads :
        /\ t # u
        /\ thr[t].pc = "done" /\ thr[t].op = "GetOrders" /\ thr[t].status = AllOrders
        /\ Len(thr[t].res.orders.elems) = 1
        /\ thr[t].res.orders.elems[1].ID = "a1f0"
        /\ thr[t].res.orders.elems[1].Status = OrderStatusPending
        /\ thr[u].pc = "done" /\ thr[u].op = "SetOrderStatus" /\ thr[u].id = "a1f0"
        /\ orders["a1f0"].Status = OrderStatusCharged

\* the threads inside a write (Lock) or a read (RLock) critical section
WritersIn == {t \in Threads : InCS(t, "InsertOrder") \/ InCS(t, "SetOrderStatus")}
ReadersIn == {t \in Threads : InCS(t, "GetOrder") \/ InCS(t, "GetOrders")}

\* C15: at most one InsertOrder or SetOrderStatus is inside its critical
\* section, and then no GetOrder or GetOrders is inside its own; readers do
\* not exclude each other: while no writer is inside, a thread that may call
\* can enter GetOrder and GetOrders however many readers are inside.
C15_ReadersWriterExclusion ==
    /\ Cardinality(WritersIn) <= 1
    /\ WritersIn # {} => ReadersIn = {}
    /\ mu.writer <=> WritersIn # {}
    /\ mu.readers = Cardinality(ReadersIn)
    /\ \A t \in Threads :
          (CanCall(t) /\ WritersIn = {})
          => (ENABLED GetOrderRLock(t)) /\ (ENABLED GetOrdersRLock(t))

\* C15 witness: a GetOrder and a GetOrders are inside their critical
\* sections together
W_C15 ==
    \E t, u \in Threads :
        /\ InCS(t, "GetOrder") /\ InCS(u, "GetOrders")
        /\ mu.readers = 2 /\ ~mu.writer
        /\ orders # << >>

C17_SetStatusUnchecked ==
    [][ \A t \in Threads :
          (BodyStep(t, "SetOrderStatus") /\ thr[t].id \in DOMAIN orders)
          => /\ thr'[t].res.err = Nil
             /\ GetOrder(orders', thr[t].id)
                   = [order |-> [orders[thr[t].id] EXCEPT !.Status = thr[t].status],
                      err |-> Nil]
             /\ DOMAIN orders' = DOMAIN orders
             /\ \A id \in DOMAIN orders \ {thr[t].id} : orders'[id] = orders[id] ]_vars

\* C17 witness: a1f0 was set to Cancelled by one call and back to Pending by
\* a later one, both without error
W_C17 ==
    \E t, u \in Threads :
        /\ thr[t].pc = "done" /\ thr[t].op = "SetOrderStatus" /\ thr[t].id = "a1f0"
        /\ thr[t].status = OrderStatusCancelled /\ thr[t].res.err = Nil
        /\ thr[u].pc = "done" /\ thr[u].op = "SetOrderStatus" /\ thr[u].id = "a1f0"
        /\ thr[u].status = OrderStatusPending /\ thr[u].res.err = Nil
        /\ orders["a1f0"].Status = OrderStatusPending

\* C18: a successful InsertOrder puts the order it was given into the map
\* under the id it returns; a record stays in the map for good with its id,
\* e-mail and line items, and its status changes only in a SetOrderStatus
\* for its id; so every GetOrder(id) after the insert returns that record
\* with the status it has, and every GetOrders whose filter it passes
\* contains it. The keys are exactly the ids returned by successful
\* inserts: GetOrder of any other id returns ErrOrderNotFound.
C18_InsertThenGet ==
    /\ [][ \A t \in Threads :
             (BodyStep(t, "InsertOrder") /\ thr'[t].res.err = Nil)
             => /\ thr'[t].res.id \in DOMAIN orders'
                /\ orders'[thr'[t].res.id] = [thr[t].order EXCEPT !.ID = thr'[t].res.id] ]_vars
    /\ [][ \A id \in DOMAIN orders :
             /\ id \in DOMAIN orders'
             /\ orders'[id] = [orders[id] EXCEPT !.Status = orders'[id].Status]
             /\ orders'[id].Status # orders[id].Status
                => \E t \in Threads : BodyStep(t, "SetOrderStatus") /\ thr[t].id = id ]_vars
    /\ [][ \A t \in Threads :
             BodyStep(t, "GetOrder")
             => thr'[t].res = IF thr[t].id \in DOMAIN orders
                              THEN [order |-> orders[thr[t].id], err |-> Nil]
                              ELSE [order |-> ZeroOrder, err |-> ErrOrderNotFound] ]_vars
    /\ [][ \A t \in Threads :
             BodyStep(t, "GetOrders")
             => \A id \in Matching(thr[t].status) :
                   \E i \in DOMAIN thr'[t].res.orders.elems :
                       thr'[t].res.orders.elems[i] = orders[id] ]_vars
    /\ [](DOMAIN orders = {insertLog[i] : i \in DOMAIN insertLog})
    /\ [](\A id \in DOMAIN orders : orders[id].ID = id)

\* C18 witness: an order without id was inserted as a1f0, a later
\* SetOrderStatus made it Charged, and a GetOrder(a1f0) after that returned
\* it with the inserted e-mail and line items and the status Charged
W_C18 ==
    \E t, u \in Threads :
        /\ insertLog = << "a1f0" >>
        /\ thr[t].pc = "done" /\ thr[t].op = "SetOrderStatus" /\ thr[t].id = "a1f0"
        /\ thr[t].status = OrderStatusCharged
        /\ thr[u].pc = "done" /\ thr[u].op = "GetOrder" /\ thr[u].id = "a1f0"
        /\ thr[u].res = [order |-> [ID |-> "a1f0", CustomerEmail |-> BadEmail,
                                     LineItems |-> Widgets, Status |-> OrderStatusCharged],
                          err |-> Nil]

\* what C19 says of one successful insert of order into the map before,
\* giving the map after and returning id; gen is the generated id
InsertedUnderId(before, after, order, gen, id) ==
    /\ id # ""
    /\ id = (IF order.ID = "" THEN gen ELSE order.ID)
    /\ id \notin DOMAIN before
    /\ id \in DOMAIN after
    /\ after[id] = [order EXCEPT !.ID = id]

\* C19: a successful InsertOrder of an order with an empty id stores it
\* under the generated id, which is not empty and was not a key before,
\* returns that id, and the stored record carries it; with a non-empty id
\* it stores the order under exactly that id and returns it. The same holds
\* of the SQL store's InsertOrder.
C19_InsertAssignsId ==
    /\ [][ \A t \in Threads :
             (BodyStep(t, "InsertOrder") /\ thr'[t].res.err = Nil)
             => InsertedUnderId(orders, orders', thr[t].order, thr'[t].rnd,
                                thr'[t].res.id) ]_vars
    /\ [](\A order \in InsertArgs : \A uuid \in GenIds :
             \A getOutcome \in DbOutcomes : \A execOutcome \in DbOutcomes :
                LET ins == SqlInsertOrder(orders, order, uuid, getOutcome, execOutcome)
                IN  ins.err = Nil
                    => InsertedUnderId(orders, ins.orders, order, uuid, ins.id))

\* C19 witness: an order without id was stored under the generated b2e9 and
\* an order with the id a1f0 under a1f0
W_C19 ==
    \E t, u \in Threads :
        /\ thr[t].pc = "done" /\ thr[t].op = "InsertOrder" /\ thr[t].order.ID = ""
        /\ thr[t].res = [id |-> "b2e9", err |-> Nil]
        /\ thr[u].pc = "done" /\ thr[u].op = "InsertOrder" /\ thr[u].order.ID = "a1f0"
        /\ thr[u].res = [id |-> "a1f0", err |-> Nil]
        /\ orders["b2e9"] = [thr[t].order EXCEPT !.ID = "b2e9"]
        /\ orders["a1f0"] = thr[u].order

\* request r is a postOrders request taking its one step in this transition
CreateStep(r) == req[r].pc = "idle" /\ req'[r].pc = "done" /\ req'[r].kind = "create"

\* the total of the line items a create request carries
ArgsTotal(args) == SumItems(args.LineItems)

\* C20: a postOrders whose body was read answers 400 invalid_email when the
\* e-mail has no "@", 400 invalid_line_items when (the e-mail being valid)
\* there is no line item, and 400 invalid_total when (both being valid) the
\* total is negative; in each of these cases InsertOrder is not called and
\* the store is left as it was.
C20_CreateValidation ==
    [][ \A r \in Reqs :
          (CreateStep(r) /\ req'[r].bodyOK)
          => LET args == req'[r].args
                 noAt == \A i \in DOMAIN args.CustomerEmail : args.CustomerEmail[i] # "@"
                 noItems == args.LineItems = << >>
                 negative == ArgsTotal(args) < 0
             IN  /\ noAt => req'[r].resp = handleError(StatusBadRequest, ErrCodeInvalidEmail)
                 /\ (~noAt /\ noItems)
                    => req'[r].resp = handleError(StatusBadRequest, ErrCodeInvalidLineItems)
                 /\ (~noAt /\ ~noItems /\ negative)
                    => req'[r].resp = handleError(StatusBadRequest, ErrCodeInvalidTotal)
                 /\ (noAt \/ noItems \/ negative)
                    => /\ req'[r].log = << >>
                       /\ orders' = orders
                       /\ insertLog' = insertLog ]_vars

\* C20 witness: three create requests were refused, one for each reason,
\* none called InsertOrder and the store is still empty
W_C20 ==
    \E r1, r2, r3 \in Reqs :
        /\ \A r \in {r1, r2, r3} :
              req[r].pc = "done" /\ req[r].kind = "create" /\ req[r].bodyOK /\ req[r].log = << >>
        /\ req[r1].args = [CustomerEmail |-> BadEmail, LineItems |-> Widgets]
        /\ req[r1].resp.code = ErrCodeInvalidEmail
        /\ req[r2].args = [CustomerEmail |-> GoodEmail, LineItems |-> << >>]
        /\ req[r2].resp.code = ErrCodeInvalidLineItems
        /\ req[r3].args = [CustomerEmail |-> GoodEmail, LineItems |-> Overdiscounted]
        /\ req[r3].resp.code = ErrCodeInvalidTotal
        /\ orders = << >>

\* the arguments of a create request pass the three checks of the claim
ValidArgs(args) ==
    /\ \E i \in DOMAIN args.CustomerEmail : args.CustomerEmail[i] = "@"
    /\ Len(args.LineItems) >= 1
    /\ ArgsTotal(args) >= 0

\* C21: a postOrders whose e-mail has an "@", with at least one line item
\* and a total >= 0 (zero included) hands InsertOrder an order with these
\* fields and the status Pending; unless InsertOrder fails it answers 201,
\* and the order it returns is the stored one, Pending, under the id
\* InsertOrder returned. Every record that enters the store is Pending.
C21_CreatePending ==
    /\ [][ \A r \in Reqs :
             (CreateStep(r) /\ req'[r].bodyOK /\ ValidArgs(req'[r].args))
             => /\ Len(req'[r].log) = 1
                /\ LET call == req'[r].log[1]
                   IN  /\ call.ev = "insert"
                       /\ call.order = [ID |-> "",
                                        CustomerEmail |-> req'[r].args.CustomerEmail,
                                        LineItems |-> req'[r].args.LineItems,
                                        Status |-> OrderStatusPending]
                       /\ call.err = Nil
                          => /\ req'[r].resp.status = StatusCreated
                             /\ call.id \in DOMAIN orders' \ DOMAIN orders
                             /\ req'[r].resp.body.Order = orders'[call.id]
                             /\ orders'[call.id] = [call.order EXCEPT !.ID = call.id]
                       /\ call.err # Nil
                          => /\ req'[r].resp.status # StatusCreated
                             /\ orders' = orders ]_vars
    /\ [][ \A id \in DOMAIN orders' \ DOMAIN orders :
             orders'[id].Status = OrderStatusPending ]_vars

\* C21 witness: an order whose total is zero was created and is stored as
\* Pending under the id of the response
W_C21 ==
    \E r \in Reqs :
        /\ req[r].pc = "done" /\ req[r].kind = "create"
        /\ req[r].args = [CustomerEmail |-> GoodEmail, LineItems |-> FreeOrder]
        /\ req[r].resp.status = StatusCreated
        /\ req[r].resp.body.Order.ID = "b2e9"
        /\ req[r].resp.body.Order.Status = OrderStatusPending
        /\ orders["b2e9"] = req[r].resp.body.Order

NotFound == handleError(StatusNotFound, ErrCodeOrderNotFound)

\* request r is a request for one order taking its middleware step in this
\* transition
FetchStep(r) ==
    req[r].pc = "idle" /\ req'[r].pc # "idle" /\ req'[r].kind \in {"get", "charge", "cancel"}

\* C22: a getOrder, chargeOrder or cancelOrder request for an id that is
\* not a key of the store is answered 404 order_not_found by the
\* middleware: the handler never runs, no call goes to the charge service
\* or to SetOrderStatus, and the store is left as it was.
C22_UnknownIdNotFound ==
    /\ [][ \A r \in Reqs :
             (FetchStep(r) /\ req'[r].id \notin DOMAIN orders)
             => /\ req'[r].pc = "done"
                /\ req'[r].resp = NotFound
                /\ req'[r].log = << >>
                /\ orders' = orders ]_vars
    /\ [](\A r \in Reqs :
             req[r].resp = NotFound
             => /\ req[r].pc = "done" /\ req[r].log = << >>
                /\ req[r].order = ZeroOrder)

\* C22 witness: a get, a charge and a cancel of b2e9 were all answered 404
\* while the store holds no such order
W_C22 ==
    \E r1, r2, r3 \in Reqs :
        /\ req[r1].kind = "get" /\ req[r2].kind = "charge" /\ req[r3].kind = "cancel"
        /\ \A r \in {r1, r2, r3} :
              /\ req[r].pc = "done" /\ req[r].id = "b2e9"
              /\ req[r].resp = NotFound /\ req[r].log = << >>
        /\ "b2e9" \notin DOMAIN orders

\* C23: when a caller writes to an Order value it holds (the one it passed
\* to InsertOrder, or one GetOrder or GetOrders returned), to its fields or
\* to the elements of its line items, every record of the store reads
\* afterwards as it read before: a GetOrder gives the same order.
C23_ValueSemantics ==
    [][ \A t \in Threads :
          (thr[t].pc = "done" /\ thr'[t].pc = "mutated")
          => \A id \in DOMAIN orders :
                Deref(heap', GetOrder(orders', id).order)
                    = Deref(heap, GetOrder(orders, id).order) ]_vars

\* C23 failing run ends here: a GetOrder returned a1f0 with a quantity no
\* InsertOrder ever stored
W_C23 ==
    \E t \in Threads :
        /\ thr[t].pc = "done" /\ thr[t].op = "GetOrder" /\ thr[t].res.err = Nil
        /\ Deref(heap, thr[t].res.order).LineItems[1].Quantity = ScribbledQuantity

\* C24: a chargeOrder or cancelOrder whose context was cancelled while its
\* call of the charge service was in flight had that call aborted (it came
\* back with an error), does not answer 200 and makes no SetOrderStatus
\* call.
C24_CancellationAborts ==
    \A r \in Reqs :
        req[r].ctxDone
        => /\ \A i \in DOMAIN req[r].log :
                 req[r].log[i].ev = "charge" => req[r].log[i].reply.err # Nil
           /\ SetCallsOf(req[r]) = << >>
           /\ req[r].pc = "done"
           /\ req[r].resp.status # StatusOK

\* C24 failing run ends here: the client of a charge gave up during the
\* call, the charge was accepted all the same, the status was written and
\* the request answered 200
W_C24 ==
    \E r \in Reqs :
        /\ req[r].kind = "charge" /\ req[r].ctxDone /\ req[r].pc = "done"
        /\ req[r].log = << ChargeCall(req[r].token, 2000, Accepted),
                            SetCall(req[r].id, OrderStatusCharged, Nil) >>
        /\ req[r].resp.status = StatusOK
        /\ orders[req[r].id].Status = OrderStatusCharged

\* C25: no chargeOrder and no cancelOrder request calls the charge service
\* more than once; the handler step in which a call fails ends the request
\* with 500 charge_service_error, so a failed call is never followed by
\* another call (or anything else) of the same request.
C25_NoRetry ==
    /\ [](\A r \in Reqs :
             /\ Len(ChargeCallsOf(req[r])) <= 1
             /\ (\E i \in DOMAIN req[r].log :
                    req[r].log[i].ev = "charge" /\ req[r].log[i].reply # Accepted)
                => /\ Len(req[r].log) = 1
                   /\ req[r].pc = "done"
                   /\ req[r].resp = ChargeServiceError)
    /\ [][ \A r \in Reqs :
             (req[r].kind \in {"charge", "cancel"} /\ req[r].pc = "handler"
              /\ req'[r].log # req[r].log)
             => /\ req[r].log = << >>
                /\ req'[r].pc \in {"write", "done"} ]_vars

\* C25 witness: a charge ended on a failed call, its one call; a second
\* charge request of the same order was accepted, again with one call
W_C25 ==
    \E r1, r2 \in Reqs :
        /\ req[r1].kind = "charge" /\ req[r1].pc = "done"
        /\ req[r1].resp = ChargeServiceError
        /\ Len(req[r1].log) = 1 /\ req[r1].log[1].reply = Unreachable
        /\ req[r2].kind = "charge" /\ req[r2].pc = "done" /\ req[r2].id = req[r1].id
        /\ req[r2].resp.status = StatusOK
        /\ Len(ChargeCallsOf(req[r2])) = 1

\* the last call request r has logged after this transition
LastLogged(r) == req'[r].log[Len(req'[r].log)]

\* C26: when the SetOrderStatus call of a chargeOrder or cancelOrder (made
\* after the charge or refund was accepted, or with no refund needed)
\* returns an error, the request answers 500 internal_error; it answers 200
\* only in the step in which SetOrderStatus returned no error.
C26_SetStatusFailure ==
    /\ [][ \A r \in Reqs :
             (WriteStep(r, "charge") \/ WriteStep(r, "cancel"))
             => /\ LastLogged(r).ev = "set"
                /\ LastLogged(r).err # Nil
                   => req'[r].resp = handleError(StatusInternalServerError,
                                                 ErrCodeInternalError)
                /\ LastLogged(r).err = Nil => req'[r].resp.status = StatusOK ]_vars
    /\ [](\A r \in Reqs :
             (req[r].kind \in {"charge", "cancel"} /\ req[r].resp.status = StatusOK)
             => /\ req[r].log # << >>
                /\ req[r].log[Len(req[r].log)].ev = "set"
                /\ req[r].log[Len(req[r].log)].err = Nil)

\* C26 witness: a charge was accepted, the SetOrderStatus after it failed
\* in the database, the request answered 500 internal_error and the order
\* is still Pending
W_C26 ==
    \E r \in Reqs :
        /\ req[r].kind = "charge" /\ req[r].pc = "done"
        /\ req[r].log = << ChargeCall(req[r].token, 2000, Accepted),
                            SetCall(req[r].id, OrderStatusCharged, DbErr) >>
        /\ req[r].resp = handleError(StatusInternalServerError, ErrCodeInternalError)
        /\ orders[req[r].id].Status = OrderStatusPending

\* C27: the 200 response of a cancelOrder tells that a refund was made (it
\* carries refundedCents) exactly when the request called the charge
\* service for a refund, and for an order it held as Charged the reported
\* refundedCents is the order's total, whatever the total is.
C27_RefundReported ==
    [][ \A r \in Reqs :
          (WriteStep(r, "cancel") /\ req'[r].resp.status = StatusOK)
          => /\ WireHasRefundedCents(req'[r].resp.body)
                   <=> ChargeCallsOf(req'[r]) # << >>
             /\ req[r].order.Status = OrderStatusCharged
                => /\ WireHasRefundedCents(req'[r].resp.body)
                   /\ req'[r].resp.body.RefundedCents = TotalCents(req[r].order) ]_vars

\* C27 failing run ends here: a charged order with total 0 was cancelled,
\* the refund call was made and accepted, and the response carries no
\* refundedCents
W_C27 ==
    \E r \in Reqs :
        /\ Holds(r, "cancel") /\ req[r].pc = "done"
        /\ req[r].order.Status = OrderStatusCharged
        /\ TotalCents(req[r].order) = 0
        /\ req[r].resp.status = StatusOK
        /\ req[r].log[1] = ChargeCall("", 0, Accepted)
        /\ ~WireHasRefundedCents(req[r].resp.body)

\* the line items of the list have a positive quantity
PositiveQuantities(items) == \A i \in DOMAIN items : items[i].Quantity > 0

\* C28: every line item of every stored order has a quantity above zero,
\* and a POST /orders whose line items include a quantity of zero or less
\* leaves the store as it was and is not answered 201.
C28_PositiveQuantity ==
    /\ [](\A id \in DOMAIN orders : PositiveQuantities(orders[id].LineItems))
    /\ [][ \A r \in Reqs :
             (CreateStep(r) /\ req'[r].bodyOK
                /\ ~PositiveQuantities(req'[r].args.LineItems))
             => /\ orders' = orders
                /\ req'[r].resp.status # StatusCreated ]_vars

\* C28 failing run ends here: a body whose one line item has quantity 0 was
\* answered 201 and the order is stored with that quantity
W_C28 ==
    \E r \in Reqs :
        /\ req[r].pc = "done" /\ req[r].kind = "create"
        /\ req[r].args = [CustomerEmail |-> GoodEmail, LineItems |-> ZeroQuantity]
        /\ req[r].resp.status = StatusCreated
        /\ req[r].id \in DOMAIN orders
        /\ orders[req[r].id].LineItems[1].Quantity = 0

\* C29: every order of the store has at least one line item, and a POST
\* /orders whose body has no line item leaves the store as it was.
C29_AtLeastOneLineItem ==
    /\ [](\A id \in DOMAIN orders : Len(orders[id].LineItems) >= 1)
    /\ [][ \A r \in Reqs :
             (CreateStep(r) /\ Len(req'[r].args.LineItems) < 1)
             => orders' = orders ]_vars

\* C29 witness: a body with a good e-mail and no line item was refused, a
\* body with two line items was stored, and the store holds that one order
W_C29 ==
    \E r, q \in Reqs :
        /\ req[r].pc = "done" /\ req[r].kind = "create" /\ req[r].bodyOK
        /\ req[r].args = [CustomerEmail |-> GoodEmail, LineItems |-> << >>]
        /\ req[r].resp.status = StatusBadRequest
        /\ req[q].pc = "done" /\ req[q].kind = "create"
        /\ req[q].resp.status = StatusCreated
        /\ DOMAIN orders = {req[q].id}
        /\ Len(orders[req[q].id].LineItems) = 2

\* the id, e-mail and line items of a record
Identity(order) == <<order.ID, order.CustomerEmail, order.LineItems>>

\* C30: no step of the store takes a key out of the map or changes the id,
\* the e-mail or the line items of a record: the keys of a state are keys
\* of the next one, under each of them the three fields are those of
\* before, and a new key comes from a successful InsertOrder only.
C30_RecordsKept ==
    /\ [][ /\ DOMAIN orders \subseteq DOMAIN orders'
           /\ \A id \in DOMAIN orders : Identity(orders'[id]) = Identity(orders[id]) ]_vars
    /\ [][ \A id \in DOMAIN orders' \ DOMAIN orders :
             \E t \in Threads :
                /\ BodyStep(t, "InsertOrder")
                /\ thr'[t].res = [id |-> id, err |-> Nil] ]_vars

\* C30 witness: a1f0 was inserted, an InsertOrder of another record under
\* a1f0 was refused and a SetOrderStatus made a1f0 Cancelled; the map holds
\* a1f0 with the e-mail and line items of the first insert
W_C30 ==
    \E t, u \in Threads :
        /\ insertLog = << "a1f0" >>
        /\ thr[t].pc = "done" /\ thr[t].op = "InsertOrder"
        /\ thr[t].order.ID = "a1f0" /\ thr[t].order.CustomerEmail = BadEmail
        /\ thr[t].res.err = ErrOrderExists
        /\ thr[u].pc = "done" /\ thr[u].op = "SetOrderStatus" /\ thr[u].id = "a1f0"
        /\ thr[u].status = OrderStatusCancelled /\ thr[u].res.err = Nil
        /\ orders = ("a1f0" :> [ID |-> "a1f0", CustomerEmail |-> GoodEmail,
                                 LineItems |-> Widgets, Status |-> OrderStatusCancelled])

TerminalStatuses == {OrderStatusFulfilled, OrderStatusCancelled}

\* C31: a record whose status is Fulfilled or Cancelled keeps that status in
\* every step of a chargeOrder or cancelOrder request, the requests that
\* fetched the order before the terminal status was written included.
C31_TerminalStatusKept ==
    [][ \A r \in Reqs : \A id \in DOMAIN orders :
          ( /\ WriteStep(r, "charge") \/ WriteStep(r, "cancel")
            /\ orders[id].Status \in TerminalStatuses )
          => orders'[id].Status = orders[id].Status ]_vars

\* C31 failing run ends here: a cancel and a charge both fetched the order
\* as Pending and both were answered 200; the cancel wrote Cancelled first
\* and the charge wrote Charged over it
W_C31 ==
    \E r, q \in Reqs :
        /\ Holds(r, "cancel") /\ req[r].pc = "done" /\ req[r].resp.status = StatusOK
        /\ Holds(q, "charge") /\ req[q].pc = "done" /\ req[q].resp.status = StatusOK
        /\ req[r].order.ID = req[q].order.ID
        /\ req[r].order.Status = OrderStatusPending
        /\ req[q].order.Status = OrderStatusPending
        /\ orders[req[q].order.ID].Status = OrderStatusCharged

\* the HTTP status of each error code
ErrorTable ==
    { <<StatusNotFound, ErrCodeOrderNotFound>>,
      <<StatusConflict, ErrCodeOrderExists>>,
      <<StatusBadRequest, ErrCodeInvalidEmail>>,
      <<StatusBadRequest, ErrCodeInvalidLineItems>>,
      <<StatusBadRequest, ErrCodeInvalidTotal>>,
      <<StatusBadRequest, ErrCodeInvalidStatus>>,
      <<StatusBadRequest, ErrCodeInvalidJSON>>,
      <<StatusConflict, ErrCodeOrderNotEligible>>,
      <<StatusInternalServerError, ErrCodeChargeServiceError>>,
      <<StatusInternalServerError, ErrCodeInternalError>> }

\* C32: every response is a 200 or 201 without error code or carries one of
\* the ten error codes with the HTTP status that code has in the table, in
\* whichever handler or middleware the error was raised.
C32_ErrorMapping ==
    \A r \in Reqs :
        req[r].pc = "done"
        => \/ /\ req[r].resp.code = ""
              /\ req[r].resp.status \in {StatusOK, StatusCreated}
           \/ <<req[r].resp.status, req[r].resp.code>> \in ErrorTable

\* C32 witness: a create was answered 409 order_already_exists and a list
\* 400 invalid_status
W_C32 ==
    \E r, q \in Reqs :
        /\ req[r].pc = "done" /\ req[r].kind = "create"
        /\ req[r].resp = handleError(StatusConflict, ErrCodeOrderExists)
        /\ req[q].pc = "done" /\ req[q].kind = "list"
        /\ req[q].resp = handleError(StatusBadRequest, ErrCodeInvalidStatus)

\* the status each filter token stands for
TokenStatus ==
    ("pending" :> 0) @@ ("charged" :> 1) @@ ("fulfilled" :> 2) @@ ("cancelled" :> 3)
        @@ ("" :> -1)

\* C33: a getOrders with the token pending, charged, fulfilled or cancelled
\* calls GetOrders once with the status 0, 1, 2 or 3, with no token with
\* -1, and answers 200 with the orders the store returned, in the store's
\* order; with any other token it answers 400 invalid_status and does not
\* call the store.
C33_FilterTokens ==
    [][ \A r \in Reqs :
          ListStep(r)
          => IF req'[r].query \in DOMAIN TokenStatus
             THEN /\ Len(req'[r].log) = 1
                  /\ req'[r].log[1].ev = "list"
                  /\ req'[r].log[1].status = TokenStatus[req'[r].query]
                  /\ req'[r].log[1].err = Nil
                  /\ req'[r].resp.status = StatusOK
                  /\ req'[r].resp.body.Orders.elems = req'[r].log[1].orders.elems
             ELSE /\ req'[r].log = << >>
                  /\ req'[r].resp = handleError(StatusBadRequest, ErrCodeInvalidStatus) ]_vars

\* C33 witness: a list with the token cancelled asked the store for status 3
\* and answered with the orders it got, and a list with the token shipped
\* was answered 400 without a call to the store
W_C33 ==
    \E r, q \in Reqs :
        /\ req[r].pc = "done" /\ req[r].kind = "list" /\ req[r].query = "cancelled"
        /\ req[r].log[1].status = OrderStatusCancelled
        /\ req[r].resp.body.Orders.elems # << >>
        /\ req[r].resp.body.Orders.elems = req[r].log[1].orders.elems
        /\ req[q].pc = "done" /\ req[q].kind = "list" /\ req[q].query = "shipped"
        /\ req[q].log = << >>
        /\ req[q].resp.status = StatusBadRequest

\* C34: a chargeOrder holding a Pending order whose total is 0 is refused
\* in its handler step, with no call to the charge service.
C34_ChargePositiveTotal ==
    [][ \A r \in Reqs :
          ( /\ HandlerStep(r, "charge")
            /\ req[r].order.Status = OrderStatusPending
            /\ TotalCents(req[r].order) = 0 )
          => /\ req'[r].pc = "done"
             /\ req'[r].resp.status \notin {StatusOK, StatusCreated}
             /\ ChargeCallsOf(req'[r]) = << >> ]_vars

\* C34 failing run ends here: a Pending order of total 0 was charged: the
\* charge service was called with amount 0, the request was answered 200
\* and the order is Charged
W_C34 ==
    \E r \in Reqs :
        /\ Holds(r, "charge") /\ req[r].pc = "done"
        /\ req[r].order.Status = OrderStatusPending
        /\ req[r].order.LineItems = FreeOrder
        /\ Len(ChargeCallsOf(req[r])) = 1
        /\ ChargeCallsOf(req[r])[1].AmountCents = 0
        /\ req[r].resp.status = StatusOK
        /\ orders[req[r].order.ID].Status = OrderStatusCharged

\* the answer and the charge-service calls of the finished request q are
\* those of the atomic ChargeOrder or CancelOrder taking an order of
\* status st to status st2
AtomicStep(q, st, st2) ==
    LET calls == ChargeCallsOf(q)
        answer == <<q.resp.status, q.resp.code>>
    IN  IF q.kind = "charge" /\ ~q.bodyOK
        THEN st2 = st /\ calls = << >> /\ answer = <<StatusBadRequest, ErrCodeInvalidJSON>>
        ELSE IF q.kind = "charge" /\ st # OrderStatusPending
        THEN st2 = st /\ calls = << >> /\ answer = <<StatusConflict, ErrCodeOrderNotEligible>>
        ELSE IF q.kind = "charge"
        THEN /\ Len(calls) = 1
             /\ calls[1].CardToken = q.token
             /\ calls[1].AmountCents = TotalCents(q.order)
             /\ IF calls[1].reply = Accepted
                THEN st2 = OrderStatusCharged /\ answer = <<StatusOK, "">>
                ELSE st2 = st /\ answer = <<StatusInternalServerError,
                                            ErrCodeChargeServiceError>>
        ELSE IF st \notin {OrderStatusPending, OrderStatusCharged}
        THEN st2 = st /\ calls = << >> /\ answer = <<StatusConflict, ErrCodeOrderNotEligible>>
        ELSE IF st = OrderStatusPending
        THEN st2 = OrderStatusCancelled /\ calls = << >> /\ answer = <<StatusOK, "">>
        ELSE /\ Len(calls) = 1
             /\ calls[1].AmountCents = -TotalCents(q.order)
             /\ IF calls[1].reply = Accepted
                THEN st2 = OrderStatusCancelled /\ answer = <<StatusOK, "">>
                ELSE st2 = st /\ answer = <<StatusInternalServerError,
                                            ErrCodeChargeServiceError>>

\* the requests of seq, run one at a time in this order as atomic steps on
\* an order of status st, a fulfilment coming between them or not, give
\* the answers and calls they have and leave the order with status final
RECURSIVE SerialRun(_, _, _)
SerialRun(seq, st, final) ==
    IF st = OrderStatusCharged /\ SerialRun(seq, OrderStatusFulfilled, final)
    THEN TRUE
    ELSE IF seq = << >>
    THEN st = final
    ELSE \E st2 \in Statuses :
            /\ AtomicStep(req[Head(seq)], st, st2)
            /\ SerialRun(Tail(seq), st2, final)

\* the orders in which the requests of S can be run one at a time
SerialOrders(S) ==
    {f \in [1..Cardinality(S) -> S] : \A i, j \in DOMAIN f : i # j => f[i] # f[j]}

\* C35: when all the charge and cancel requests that fetched an order are
\* finished, their answers, their calls to the charge service and the
\* status of the order are those of running the same requests one at a
\* time, in some order, as atomic steps on the order as it was created.
C35_SerialOutcome ==
    \A id \in DOMAIN orders :
        LET S == {r \in Reqs : /\ Holds(r, "charge") \/ Holds(r, "cancel")
                               /\ req[r].order.ID = id}
        IN  (\A r \in S : req[r].pc = "done")
            => \E f \in SerialOrders(S) :
                  SerialRun(f, OrderStatusPending, orders[id].Status)

\* C35 failing run ends here: two charge requests of one order were both
\* answered 200, each after a call the charge service accepted, which no
\* order of the two atomic steps gives
W_C35 ==
    \E r1, r2 \in Reqs :
        /\ r1 # r2 /\ req[r1].order.ID = req[r2].order.ID
        /\ \A r \in {r1, r2} :
              /\ Holds(r, "charge") /\ req[r].pc = "done"
              /\ req[r].resp.status = StatusOK
              /\ Len(ChargeCallsOf(req[r])) = 1
              /\ ChargeCallsOf(req[r])[1].reply = Accepted
        /\ ~(\E f \in SerialOrders({r1, r2}) :
                SerialRun(f, OrderStatusPending, orders[req[r1].order.ID].Status))

\* the sum of the amounts of the accepted calls of a sequence of calls
RECURSIVE AcceptedSum(_)
AcceptedSum(calls) ==
    IF calls = << >> THEN 0
    ELSE (IF Head(calls).reply = Accepted THEN Head(calls).AmountCents ELSE 0)
            + AcceptedSum(Tail(calls))

\* the sum of the amounts the charge service accepted in the requests of S
RECURSIVE AcceptedIn(_)
AcceptedIn(S) ==
    IF S = {} THEN 0
    ELSE LET r == CHOOSE x \in S : TRUE
         IN  AcceptedSum(ChargeCallsOf(req[r])) + AcceptedIn(S \ {r})

\* charges less refunds accepted for the order id
NetAccepted(id) ==
    AcceptedIn({r \in Reqs : /\ Holds(r, "charge") \/ Holds(r, "cancel")
                             /\ req[r].order.ID = id})

\* no charge or cancel request that fetched the order id is in progress
Quiescent(id) ==
    \A r \in Reqs :
        (Holds(r, "charge") \/ Holds(r, "cancel")) /\ req[r].order.ID = id
        => req[r].pc = "done"

\* no SetOrderStatus call of a request has failed
NoSetFailure ==
    \A r \in Reqs : \A i \in DOMAIN req[r].log :
        req[r].log[i].ev = "set" => req[r].log[i].err = Nil

\* C36: when no request on an order is in progress and no SetOrderStatus
\* call has failed, the charge service has accepted, charges less refunds,
\* the order's total if the order is Charged and nothing if it is Pending
\* or Cancelled.
C36_NetAmount ==
    \A id \in DOMAIN orders :
        (Quiescent(id) /\ NoSetFailure)
        => /\ orders[id].Status = OrderStatusCharged
              => NetAccepted(id) = TotalCents(orders[id])
           /\ orders[id].Status \in {OrderStatusPending, OrderStatusCancelled}
              => NetAccepted(id) = 0

\* C36 failing run ends here: a charge and a cancel both fetched the order
\* as Pending; the charge was accepted and the cancel, making no refund,
\* wrote Cancelled last: the order is Cancelled and its 2000 stay charged
W_C36 ==
    \E r, q \in Reqs :
        /\ Holds(r, "charge") /\ req[r].pc = "done" /\ req[r].resp.status = StatusOK
        /\ Holds(q, "cancel") /\ req[q].pc = "done" /\ req[q].resp.status = StatusOK
        /\ req[r].order.ID = req[q].order.ID
        /\ Quiescent(req[r].order.ID) /\ NoSetFailure
        /\ orders[req[r].order.ID].Status = OrderStatusCancelled
        /\ NetAccepted(req[r].order.ID) = 2000

\* C37: a SetOrderStatus(id, s) that returns no error leaves the map as it
\* was but for the status of the record id, which is s; GetOrder and
\* GetOrders, and the taking of the lock by any method, leave the map as it
\* was.
C37_SetStatusFrame ==
    /\ [][ \A t \in Threads :
             (BodyStep(t, "SetOrderStatus") /\ thr'[t].res.err = Nil)
             => orders' = [orders EXCEPT ![thr[t].id].Status = thr[t].status] ]_vars
    /\ [][ \A t \in Threads :
             (BodyStep(t, "GetOrder") \/ BodyStep(t, "GetOrders"))
             => orders' = orders ]_vars
    /\ [][ (\A t \in Threads : thr'[t].pc # "done" \/ thr[t].pc = "done")
             => orders' = orders ]_vars

\* C37 witness: the map holds two records; a SetOrderStatus(a1f0, Charged)
\* returned no error, a1f0 is Charged and b2e9 is Pending as inserted
W_C37 ==
    \E t \in Threads :
        /\ thr[t].pc = "done" /\ thr[t].op = "SetOrderStatus" /\ thr[t].id = "a1f0"
        /\ thr[t].status = OrderStatusCharged /\ thr[t].res.err = Nil
        /\ DOMAIN orders = {"a1f0", "b2e9"}
        /\ orders["a1f0"].Status = OrderStatusCharged
        /\ orders["b2e9"].Status = OrderStatusPending

\* the requests that are inside a store method under the read lock, and
\* under the write lock
ReadHolders == {r \in Reqs : req[r].pc = "fetch-cs"}
WriteHolders == {r \in Reqs : req[r].pc = "write-cs"}

\* C38: the lock is held by the requests that are inside a store method
\* and by nothing else, so not by a request whose charge call is in flight
\* nor by one that has returned from the store with or without an error;
\* while a charge call is in flight and no SetOrderStatus is running, a
\* GetOrder can take the read lock; and, every goroutine being scheduled
\* and the charge service answering, every request that arrived is
\* answered.
C38_LockNotHeldDuringCall ==
    /\ [](/\ mu.readers = Cardinality(ReadHolders)
          /\ mu.writer = (WriteHolders # {}))
    /\ []((\E r \in Reqs : req[r].pc = "calling") /\ WriteHolders = {} => CanRLock)
    /\ \A r \in Reqs : (req[r].pc # "idle") ~> (req[r].pc = "done")

\* C38 witness: a charge call is in flight while another request is inside
\* GetOrder under the read lock and a third, refused 404, has returned from
\* the store
W_C38 ==
    \E r, q, p \in Reqs :
        /\ req[r].pc = "calling"
        /\ req[q].pc = "fetch-cs" /\ req[q].kind = "get"
        /\ req[p].pc = "done" /\ req[p].resp.status = StatusNotFound
        /\ mu = [writer |-> FALSE, readers |-> 1]

\* the codes of the rules the arguments break, in the order e-mail, line
\* items, total
RulesBroken(args) ==
    (IF \A i \in DOMAIN args.CustomerEmail : args.CustomerEmail[i] # "@"
     THEN << ErrCodeInvalidEmail >> ELSE << >>)
    \o (IF Len(args.LineItems) < 1 THEN << ErrCodeInvalidLineItems >> ELSE << >>)
    \o (IF ArgsTotal(args) < 0 THEN << ErrCodeInvalidTotal >> ELSE << >>)

\* C39: a postOrders whose body was read and breaks one rule or more is
\* answered 400 with the code of the first rule it breaks in the order
\* e-mail, line items, total, whatever other rules it breaks.
C39_FirstViolation ==
    [][ \A r \in Reqs :
          (CreateStep(r) /\ req'[r].bodyOK /\ RulesBroken(req'[r].args) # << >>)
          => req'[r].resp = handleError(StatusBadRequest,
                                        Head(RulesBroken(req'[r].args))) ]_vars

\* C39 witness: a body without "@" and without line items and a body
\* without "@" and with a negative total were both answered invalid_email
W_C39 ==
    \E r, q \in Reqs :
        /\ req[r].pc = "done" /\ req[r].kind = "create" /\ req[r].bodyOK
        /\ req[r].args = [CustomerEmail |-> BadEmail, LineItems |-> << >>]
        /\ req[r].resp.code = ErrCodeInvalidEmail
        /\ req[q].pc = "done" /\ req[q].kind = "create" /\ req[q].bodyOK
        /\ req[q].args = [CustomerEmail |-> BadEmail, LineItems |-> Overdiscounted]
        /\ RulesBroken(req[q].args) = << ErrCodeInvalidEmail, ErrCodeInvalidTotal >>
        /\ req[q].resp.code = ErrCodeInvalidEmail

\* goroutine t has returned from an InsertOrder on the SQL store during
\* which no database call came back with an error of its own
SqlInsertReturned(t) ==
    /\ thr[t].pc = "done" /\ thr[t].op = "SqlInsertOrder"
    /\ thr[t].res.get = Nil /\ thr[t].res.exec = Nil

\* C40: of two InsertOrder calls on the SQL store with the same id given
\* by the caller, the database answering every statement, at most one
\* returns no error and one that returns an error returns ErrOrderExists.
C40_SqlInsertAtomic ==
    \A t, u \in Threads :
        ( /\ t # u
          /\ SqlInsertReturned(t) /\ SqlInsertReturned(u)
          /\ thr[t].order.ID # "" /\ thr[t].order.ID = thr[u].order.ID )
        => /\ ~(thr[t].res.err = Nil /\ thr[u].res.err = Nil)
           /\ thr[t].res.err \in {Nil, ErrOrderExists}

\* C40 failing run ends here: two InsertOrder calls for a1f0 both found no
\* row; the INSERT of one went through and the INSERT of the other was
\* refused by the database, whose error it returned
W_C40 ==
    \E t, u \in Threads :
        /\ t # u
        /\ SqlInsertReturned(t) /\ SqlInsertReturned(u)
        /\ thr[t].order.ID = "a1f0" /\ thr[u].order.ID = "a1f0"
        /\ thr[t].res.err = Nil /\ thr[t].res.id = "a1f0"
        /\ thr[u].res.err = DbErr
        /\ insertLog = << "a1f0" >>

====
